---- MODULE Spec2Model ----
(***************************************************************************)
(* State-machine model of the pass-recording handles                       *)
(* (GpuRenderPassEncoder, GpuComputePassEncoder) and of their parent       *)
(* GpuCommandEncoder in the SylphxAI/webgpu binding layer.                 *)
(*                                                                         *)
(* The binding's own state is tiny: GpuCommandEncoder.encoder is an        *)
(* Option<wgpu::CommandEncoder>, a pass handle's `pass` is an              *)
(* Option<*mut ()>.  The native library is modelled only as far as the     *)
(* binding drives it: the calls a native session receives, how often a     *)
(* native session is finalized, and the commands a native encoder holds.   *)
(***************************************************************************)
EXTENDS Integers, Sequences, FiniteSets, TLC

\* ------------------------------------------------------------------ bounds
MaxHandles == 2
MaxCalls == 2
MaxBuffers == 2
MaxObserved == 3
MaxObjects == 2

Handles == 1..MaxHandles

\* ------------------------------------------------------- argument domains
None == -1
IndexFormats == {"uint16", "uint32", "uint8"}
BlendColors == {<<1, 0, 0>>, <<1, 0, 0, 1>>}
OptCounts == {None, 2}

\* ------------------------------------------------------------ error values
Ok == [msg |-> "Ok", arg |-> ""]
Err(m) == [msg |-> m, arg |-> ""]
ErrArg(m, a) == [msg |-> m, arg |-> a]

RenderEnded == "Render pass already ended"
ComputeEnded == "Compute pass already ended"
EncoderFinished == "Command encoder already finished"
InvalidIndexFormat == "Invalid index format: "
BlendComponents == "Blend constant must have 4 components (RGBA)"
BeginEncoderFinished == "EncoderFinished"
BeginSessionOpen == "SessionOpen"

EndedMsg(kind) == IF kind = "render" THEN RenderEnded ELSE ComputeEnded

VARIABLES
  encoder,   \* [st, cmds]: GpuCommandEncoder.encoder and the native encoder's commands
  buffers,   \* sequence of GpuCommandBuffer.buffer values returned by finish
  handle,    \* h -> [st, kind, pass]: the pass handle object and its `pass` field
  session,   \* h -> [st, kind, calls, finalized]: the native session behind the pointer
  ncalls,    \* native recording calls made so far (bounds the model)
  crashed,   \* the process faulted on a dangling native reference
  capture,   \* what the observer keeps of a native call: "args" (all of it) or "count"
  objects,   \* the native objects the device has created, in creation order
  gbuf,      \* the GpuBuffer object: its fields and the native buffer behind it
  queue,     \* the command lists the native queue has received, in order
  last       \* the last call made by the host and what it returned

vars == <<encoder, buffers, handle, session, ncalls, crashed, capture, objects, gbuf, queue, last>>

\* ----------------------------------------------------------------- helpers
Unwrap(opt, default) == IF opt = None THEN default ELSE opt

HState(h) == IF handle[h].pass = None THEN "ENDED" ELSE "OPEN"

\* the native sessions open on the encoder
OpenSessions == {h \in Handles : session[h].st = "live"}

EncoderBusy == OpenSessions # {}

\* the record of one host call: its class, its target (a handle, 0 for the
\* encoder), the target's state before it, whether a session was open on the
\* encoder and whether the encoder was finished when it was made, whether its
\* arguments fail the operation's own validation, its result and the number of
\* native calls it made
Call(cls, tgt, pre, bad, res, fwd) ==
  [cls |-> cls, tgt |-> tgt, pre |-> pre, bad |-> bad, res |-> res,
   fwd |-> fwd, busy |-> EncoderBusy, fin |-> encoder.st = "none", req |-> [fn |-> "none"]]

\* a native call as the observer keeps it
Observe(call) == IF capture = "args" THEN call ELSE [fn |-> "call"]

\* a host request: the operation's name and the arguments as the host passed them
Req(fn, args) == [fn |-> fn, args |-> args]

\* the record of a host call that carries a request
Request(call, req) == [call EXCEPT !.req = Observe(req)]

\* how many native recording calls the model follows
CallBudget == IF capture = "args" THEN MaxObserved ELSE MaxCalls

\* a pass handle h of the given kind is a live host object
Callable(h, kind) == ~crashed /\ handle[h].st = "live" /\ handle[h].kind = kind

\* ------------------------------------------------------------------- Init
\* no GpuBuffer has been created
NoBuffer == [st |-> "absent"]

Init ==
  /\ encoder = [st |-> "absent", cmds |-> <<>>]
  /\ buffers = <<>>
  /\ handle = [h \in Handles |-> [kind |-> "none", pass |-> None, st |-> "absent"]]
  /\ session = [h \in Handles |-> [kind |-> "none", st |-> "unallocated",
                                   calls |-> <<>>, finalized |-> 0]]
  /\ ncalls = 0
  /\ crashed = FALSE
  /\ capture = "count"
  /\ objects = <<>>
  /\ gbuf = NoBuffer
  /\ queue = <<>>
  /\ last = [cls |-> "init", tgt |-> 0, pre |-> "none", bad |-> FALSE, res |-> Ok,
            fwd |-> 0, busy |-> FALSE, fin |-> FALSE, req |-> [fn |-> "none"]]

\* the same program with every native call observed in full
InitArgs ==
  /\ encoder = [st |-> "absent", cmds |-> <<>>]
  /\ buffers = <<>>
  /\ handle = [h \in Handles |-> [kind |-> "none", pass |-> None, st |-> "absent"]]
  /\ session = [h \in Handles |-> [kind |-> "none", st |-> "unallocated",
                                   calls |-> <<>>, finalized |-> 0]]
  /\ ncalls = 0
  /\ crashed = FALSE
  /\ capture = "args"
  /\ objects = <<>>
  /\ gbuf = NoBuffer
  /\ queue = <<>>
  /\ last = [cls |-> "init", tgt |-> 0, pre |-> "none", bad |-> FALSE, res |-> Ok,
            fwd |-> 0, busy |-> FALSE, fin |-> FALSE, req |-> [fn |-> "none"]]

\* ------------------------------------------------ GpuDevice: encoder factory
\* device.createCommandEncoder: encoder: Some(encoder)
CreateCommandEncoder ==
  /\ ~crashed
  /\ encoder.st = "absent"
  /\ encoder' = [st |-> "some", cmds |-> <<>>]
  /\ last' = Call("create", 0, "absent", FALSE, Ok, 0)
  /\ UNCHANGED <<buffers, handle, session, ncalls, crashed, capture, queue, objects, gbuf>>

\* ------------------------------------------------------- begin (handle birth)
\* The next unused handle slot: handles are allocated in order.
NextHandle == CHOOSE h \in Handles : handle[h].st = "absent" /\ \A g \in Handles : g < h => handle[g].st # "absent"

\* faulty variant: begin never looks for an OPEN session
BeginRejectsOpen_Never == FALSE

\* Whether begin turns away an encoder that already has an OPEN session.
BeginRejectsOpen == EncoderBusy

\* begin: the session is moved to the heap and its pointer stored as Some(ptr).
Begin(kind) ==
  /\ ~crashed
  /\ encoder.st # "absent"
  /\ (encoder.st = "some" /\ ~BeginRejectsOpen) => \E h \in Handles : handle[h].st = "absent"
  /\ LET h == NextHandle IN
     IF encoder.st = "none"
     THEN /\ last' = Call("begin", 0, "none", FALSE, Err(BeginEncoderFinished), 0)
          /\ UNCHANGED <<encoder, buffers, handle, session, ncalls, crashed, capture, queue, objects, gbuf>>
     ELSE IF BeginRejectsOpen
     THEN /\ last' = Call("begin", 0, "some", FALSE, Err(BeginSessionOpen), 0)
          /\ UNCHANGED <<encoder, buffers, handle, session, ncalls, crashed, capture, queue, objects, gbuf>>
     ELSE /\ session' = [session EXCEPT ![h] = [kind |-> kind, st |-> "live",
                                                calls |-> <<>>, finalized |-> 0]]
          /\ handle' = [handle EXCEPT ![h] = [kind |-> kind, pass |-> h, st |-> "live"]]
          /\ last' = Call("begin", 0, "some", FALSE, Ok, 1)
          /\ UNCHANGED <<encoder, buffers, ncalls, crashed, capture, queue, objects, gbuf>>

BeginRenderPass == Begin("render")
BeginComputePass == Begin("compute")

\* ------------------------------------------------- pass handles: shared shape
\* `if let Some(pass_ptr) = self.pass`
PassIsSome(h) == handle[h].pass # None

\* faulty variant: the call starts the session's state afresh
Forward_Reset(h, op, call) ==
  /\ ncalls < CallBudget
  /\ session' = [session EXCEPT ![handle[h].pass].calls = <<Observe(call)>>]
  /\ ncalls' = ncalls + 1
  /\ last' = Request(Call("record", h, "OPEN", FALSE, Ok, 1), op)
  /\ UNCHANGED <<encoder, buffers, handle, crashed, capture, queue, objects, gbuf>>

\* the Some branch: reconstitute &mut pass from the pointer, make the one native call
Forward(h, op, call) ==
  /\ ncalls < CallBudget
  /\ session' = [session EXCEPT ![handle[h].pass].calls = Append(@, Observe(call))]
  /\ ncalls' = ncalls + 1
  /\ last' = Request(Call("record", h, "OPEN", FALSE, Ok, 1), op)
  /\ UNCHANGED <<encoder, buffers, handle, crashed, capture, queue, objects, gbuf>>

\* faulty variant: the validation error path also tears the pass down
Invalid_Ends(h, op, res) ==
  /\ handle' = [handle EXCEPT ![h].pass = None]
  /\ last' = Request(Call("record", h, "OPEN", TRUE, res, 0), op)
  /\ UNCHANGED <<encoder, buffers, session, ncalls, crashed, capture, queue, objects, gbuf>>

\* an early `return Err(..)` inside the Some branch: validation failed, no native call
Invalid(h, op, res) ==
  /\ last' = Request(Call("record", h, "OPEN", TRUE, res, 0), op)
  /\ UNCHANGED <<encoder, buffers, handle, session, ncalls, crashed, capture, queue, objects, gbuf>>

\* faulty variant: the else branch reports success
AlreadyEnded_Ok(h, op, bad) ==
  /\ last' = Request(Call("record", h, HState(h), bad, Ok, 0), op)
  /\ UNCHANGED <<encoder, buffers, handle, session, ncalls, crashed, capture, queue, objects, gbuf>>

\* the else branch: Err("... pass already ended")
AlreadyEnded(h, op, bad) ==
  /\ last' = Request(Call("record", h, HState(h), bad, Err(EndedMsg(handle[h].kind)), 0), op)
  /\ UNCHANGED <<encoder, buffers, handle, session, ncalls, crashed, capture, queue, objects, gbuf>>

\* every plain recording operation: check, forward, Ok / already ended
Record(h, kind, op, call) ==
  /\ Callable(h, kind)
  /\ IF PassIsSome(h) THEN Forward(h, op, call) ELSE AlreadyEnded(h, op, FALSE)

\* the unbounded end of `off..` and `..`
BufferEnd == -1

\* buffer.slice(..) as chosen from the optional offset and size
BufferSlice(offset, size) ==
  IF offset # None /\ size # None THEN <<offset, offset + size>>
  ELSE IF offset # None THEN <<offset, BufferEnd>>
  ELSE <<0, BufferEnd>>

\* --------------------------------------------------------- u32 arithmetic
\* A u32 is kept as two 16-bit limbs <<high, low>>, so that values up to
\* 2^32 - 1 and their sums are computed exactly.
U32Limb == 65536

U32(n) == <<n \div U32Limb, n % U32Limb>>

U32Max == <<U32Limb - 1, U32Limb - 1>>

\* an absent Option<u32>
NoU32 == <<>>

\* Option<u32>::unwrap_or
UnwrapU32(opt, default) == IF opt = NoU32 THEN U32(default) ELSE opt

\* the mathematical sum a + b: the high limb is not reduced
U32Sum(a, b) == <<a[1] + b[1] + ((a[2] + b[2]) \div U32Limb), (a[2] + b[2]) % U32Limb>>

\* `a + b` leaves the u32 range
U32Overflows(a, b) == U32Sum(a, b)[1] >= U32Limb

\* `a + b` as a build without overflow checks computes it: modulo 2^32
U32WrappingAdd(a, b) == <<U32Sum(a, b)[1] % U32Limb, U32Sum(a, b)[2]>>

\* first..first + count on u32
U32Range(first, count) == <<first, U32WrappingAdd(first, count)>>

\* what a call that never returns leaves in place of a result
Panicked == [msg |-> "panicked", arg |-> ""]

\* `first + count` overflowing in a build with overflow checks: the method
\* panics inside the Some branch, before the native call
Panic(h, op) ==
  /\ crashed' = TRUE
  /\ last' = Request(Call("record", h, "OPEN", FALSE, Panicked, 0), op)
  /\ UNCHANGED <<encoder, buffers, handle, session, ncalls, capture, queue, objects, gbuf>>

\* a recording operation that adds u32 arguments: with overflow checks the
\* addition panics, without them it wraps and the call goes through
RecordSum(h, kind, op, overflows, call) ==
  /\ Callable(h, kind)
  /\ IF PassIsSome(h)
     THEN IF overflows
          THEN Panic(h, op) \/ Forward(h, op, call)
          ELSE Forward(h, op, call)
     ELSE AlreadyEnded(h, op, FALSE)


\* ---------------------------------------------------- GpuRenderPassEncoder
RenderSetPipeline(h, pipeline) ==
  Record(h, "render", Req("set_pipeline", <<pipeline>>),
         [fn |-> "set_pipeline", pipeline |-> pipeline])

RenderSetBindGroup(h, index, dynamic_offsets) ==
  Record(h, "render", Req("set_bind_group", <<index, dynamic_offsets>>),
         [fn |-> "set_bind_group", index |-> index,
          offsets |-> IF dynamic_offsets = None THEN <<>> ELSE <<dynamic_offsets>>])

RenderSetVertexBuffer(h, slot, offset, size) ==
  Record(h, "render", Req("set_vertex_buffer", <<slot, offset, size>>),
         [fn |-> "set_vertex_buffer", slot |-> slot, slice |-> BufferSlice(offset, size)])

\* faulty variant: any other string falls through to a native format
IndexFormatOk_Lenient(index_format) == TRUE

\* the match on index_format: Some(native format) or the early error
IndexFormatOk(index_format) == index_format \in {"uint16", "uint32"}

\* the native value of an accepted index format
IndexFormat(index_format) == IF index_format = "uint16" THEN "Uint16" ELSE "Uint32"

RenderSetIndexBuffer(h, index_format, offset, size) ==
  /\ Callable(h, "render")
  /\ LET op == Req("set_index_buffer", <<index_format, offset, size>>) IN
     IF PassIsSome(h)
     THEN IF IndexFormatOk(index_format)
          THEN Forward(h, op,
                       [fn |-> "set_index_buffer", slice |-> BufferSlice(offset, size),
                        format |-> IndexFormat(index_format)])
          ELSE Invalid(h, op, ErrArg(InvalidIndexFormat, index_format))
     ELSE AlreadyEnded(h, op, ~IndexFormatOk(index_format))

RenderDraw(h, vertex_count, instance_count, first_vertex, first_instance) ==
  RecordSum(h, "render",
    Req("draw", <<vertex_count, instance_count, first_vertex, first_instance>>),
    \/ U32Overflows(UnwrapU32(first_vertex, 0), vertex_count)
    \/ U32Overflows(UnwrapU32(first_instance, 0), UnwrapU32(instance_count, 1)),
    [fn |-> "draw",
     vertices |-> U32Range(UnwrapU32(first_vertex, 0), vertex_count),
     instances |-> U32Range(UnwrapU32(first_instance, 0), UnwrapU32(instance_count, 1))])

RenderDrawIndexed(h, index_count, instance_count, first_index, base_vertex, first_instance) ==
  RecordSum(h, "render",
    Req("draw_indexed", <<index_count, instance_count, first_index, base_vertex, first_instance>>),
    \/ U32Overflows(UnwrapU32(first_index, 0), index_count)
    \/ U32Overflows(UnwrapU32(first_instance, 0), UnwrapU32(instance_count, 1)),
    [fn |-> "draw_indexed",
     instances |-> U32Range(UnwrapU32(first_instance, 0), UnwrapU32(instance_count, 1)),
     base_vertex |-> Unwrap(base_vertex, 0),
     indices |-> U32Range(UnwrapU32(first_index, 0), index_count)])

RenderDrawIndirect(h, indirect_offset) ==
  Record(h, "render", Req("draw_indirect", <<indirect_offset>>),
         [fn |-> "draw_indirect", offset |-> indirect_offset])

RenderDrawIndexedIndirect(h, indirect_offset) ==
  Record(h, "render", Req("draw_indexed_indirect", <<indirect_offset>>),
         [fn |-> "draw_indexed_indirect", offset |-> indirect_offset])

RenderExecuteBundles(h, nbundles) ==
  Record(h, "render", Req("execute_bundles", <<nbundles>>),
         [fn |-> "execute_bundles", bundles |-> nbundles])

RenderSetViewport(h) ==
  Record(h, "render", Req("set_viewport", <<0, 0, 4, 4, 0, 1>>),
         [fn |-> "set_viewport", rect |-> <<0, 0, 4, 4>>, depth |-> <<0, 1>>])

RenderSetScissorRect(h) ==
  Record(h, "render", Req("set_scissor_rect", <<0, 0, 4, 4>>),
         [fn |-> "set_scissor_rect", rect |-> <<0, 0, 4, 4>>])

RenderSetBlendConstant(h, color) ==
  /\ Callable(h, "render")
  /\ LET op == Req("set_blend_constant", <<color>>) IN
     IF PassIsSome(h)
     THEN IF Len(color) < 4
          THEN Invalid(h, op, Err(BlendComponents))
          ELSE Forward(h, op, [fn |-> "set_blend_constant", color |-> SubSeq(color, 1, 4)])
     ELSE AlreadyEnded(h, op, Len(color) < 4)

RenderSetStencilReference(h) ==
  Record(h, "render", Req("set_stencil_reference", <<1>>),
         [fn |-> "set_stencil_reference", reference |-> 1])

RenderPushDebugGroup(h) ==
  Record(h, "render", Req("push_debug_group", <<"g">>),
         [fn |-> "push_debug_group", label |-> "g"])

RenderPopDebugGroup(h) ==
  Record(h, "render", Req("pop_debug_group", <<>>), [fn |-> "pop_debug_group"])

RenderInsertDebugMarker(h) ==
  Record(h, "render", Req("insert_debug_marker", <<"m">>),
         [fn |-> "insert_debug_marker", label |-> "m"])

\* --------------------------------------------------- GpuComputePassEncoder
ComputeSetPipeline(h, pipeline) ==
  Record(h, "compute", Req("set_pipeline", <<pipeline>>),
         [fn |-> "set_pipeline", pipeline |-> pipeline])

ComputeSetBindGroup(h, index, dynamic_offsets) ==
  Record(h, "compute", Req("set_bind_group", <<index, dynamic_offsets>>),
         [fn |-> "set_bind_group", index |-> index,
          offsets |-> IF dynamic_offsets = None THEN <<>> ELSE <<dynamic_offsets>>])

ComputeDispatchWorkgroups(h, x, y, z) ==
  Record(h, "compute", Req("dispatch_workgroups", <<x, y, z>>),
         [fn |-> "dispatch_workgroups", count |-> <<x, Unwrap(y, 1), Unwrap(z, 1)>>])

ComputeDispatchWorkgroupsIndirect(h, indirect_offset) ==
  Record(h, "compute", Req("dispatch_workgroups_indirect", <<indirect_offset>>),
         [fn |-> "dispatch_workgroups_indirect", offset |-> indirect_offset])

ComputePushDebugGroup(h) ==
  Record(h, "compute", Req("push_debug_group", <<"g">>),
         [fn |-> "push_debug_group", label |-> "g"])

ComputePopDebugGroup(h) ==
  Record(h, "compute", Req("pop_debug_group", <<>>), [fn |-> "pop_debug_group"])

ComputeInsertDebugMarker(h) ==
  Record(h, "compute", Req("insert_debug_marker", <<"m">>),
         [fn |-> "insert_debug_marker", label |-> "m"])


\* ------------------------------------------------------------ end and Drop
\* faulty variant: the pointer is read but left in the field
TakePass_Keep(h) == handle

\* `self.pass.take()`: the field is None afterwards
TakePass(h) == [handle EXCEPT ![h].pass = None]

\* faulty variant: the pointer is forgotten, the box is never rebuilt
Finalize_Leak(s) ==
  /\ session' = session
  /\ encoder' = encoder
  /\ crashed' = crashed

\* `Box::from_raw(ptr)` dropped: the native pass is finalized.  Its Drop hands
\* the recorded calls to the parent encoder; a parent that was finished in the
\* meantime is a dangling reference, so the outcome is a fault or nothing.
Finalize(s) ==
  /\ session' = [session EXCEPT ![s].st = "freed", ![s].finalized = @ + 1, ![s].calls = <<>>]
  /\ IF encoder.st = "some" /\ session[s].st = "live"
     THEN /\ encoder' = [encoder EXCEPT !.cmds =
                           Append(@, [kind |-> session[s].kind, calls |-> session[s].calls,
                                      op |-> "pass"])]
          /\ crashed' = crashed
     ELSE /\ encoder' = encoder
          /\ crashed' \in BOOLEAN

\* end(): `if let Some(pass_ptr) = self.pass.take() { drop(Box::from_raw(..)) }`
End(h, kind) ==
  /\ Callable(h, kind)
  /\ IF PassIsSome(h)
     THEN /\ handle' = TakePass(h)
          /\ Finalize(handle[h].pass)
          /\ last' = Call("end", h, "OPEN", FALSE, Ok, 1)
          /\ UNCHANGED <<buffers, ncalls, capture, queue, objects, gbuf>>
     ELSE /\ last' = Call("end", h, "ENDED", FALSE, Ok, 0)
          /\ UNCHANGED <<encoder, buffers, handle, session, ncalls, crashed, capture, queue, objects, gbuf>>

RenderEnd(h) == End(h, "render")
ComputeEnd(h) == End(h, "compute")

\* faulty variant: Drop releases nothing
DropTakes_Never(h) == FALSE

\* whether Drop finds a pointer to release
DropTakes(h) == PassIsSome(h)

\* impl Drop: the host discards the handle object; same take-and-release
Drop(h, kind) ==
  /\ Callable(h, kind)
  /\ IF DropTakes(h)
     THEN /\ handle' = [TakePass(h) EXCEPT ![h].st = "dropped"]
          /\ Finalize(handle[h].pass)
          /\ last' = Call("drop", h, "OPEN", FALSE, Ok, 1)
          /\ UNCHANGED <<buffers, ncalls, capture, queue, objects, gbuf>>
     ELSE /\ handle' = [handle EXCEPT ![h].st = "dropped"]
          /\ last' = Call("drop", h, HState(h), FALSE, Ok, 0)
          /\ UNCHANGED <<encoder, buffers, session, ncalls, crashed, capture, queue, objects, gbuf>>

RenderDrop(h) == Drop(h, "render")
ComputeDrop(h) == Drop(h, "compute")


\* ------------------------------------------------------ GpuCommandEncoder
\* `if let Some(ref mut enc) = self.encoder`
EncoderIsSome == encoder.st = "some"

\* faulty variant: the else branch reports success
AlreadyFinished_Ok(op) ==
  /\ last' = Request(Call("encop", 0, "none", FALSE, Ok, 0), op)
  /\ UNCHANGED <<encoder, buffers, handle, session, ncalls, crashed, capture, queue, objects, gbuf>>

\* the else branch: Err("Command encoder already finished")
AlreadyFinished(op) ==
  /\ last' = Request(Call("encop", 0, "none", FALSE, Err(EncoderFinished), 0), op)
  /\ UNCHANGED <<encoder, buffers, handle, session, ncalls, crashed, capture, queue, objects, gbuf>>

\* the Some branch: the native encoder records the command(s)
Encode(op, kind, calls) ==
  /\ ncalls < CallBudget
  /\ encoder' = [encoder EXCEPT !.cmds = Append(@, Observe([kind |-> kind, calls |-> calls, op |-> op.fn]))]
  /\ ncalls' = ncalls + 1
  /\ last' = Request(Call("encop", 0, "some", FALSE, Ok, 1), op)
  /\ UNCHANGED <<buffers, handle, session, crashed, capture, queue, objects, gbuf>>

EncoderOp(op, kind, calls) ==
  /\ ~crashed
  /\ encoder.st # "absent"
  /\ IF EncoderIsSome THEN Encode(op, kind, calls) ELSE AlreadyFinished(op)

\* for (index, bind_group) in bind_groups.iter().enumerate()
BindGroupCalls(n) ==
  [i \in 1..n |-> [fn |-> "set_bind_group", index |-> i - 1, offsets |-> <<>>]]

\* for (index, buffer) in vertex_buffers.iter().enumerate()
VertexBufferCalls(m) ==
  [i \in 1..m |-> [fn |-> "set_vertex_buffer", slot |-> i - 1, slice |-> <<0, BufferEnd>>]]

\* wgpu::Color::BLACK
Black == <<0, 0, 0, 1>>

\* faulty variant: every attachment takes the first entry of clear_colors
ClearColor_First(i, clear_colors) ==
  IF clear_colors # <<>>
  THEN LET colors == clear_colors[1] IN
       IF 0 < Len(colors) /\ Len(colors[1]) >= 4
       THEN <<colors[1][1], colors[1][2], colors[1][3], colors[1][4]>>
       ELSE Black
  ELSE Black

\* the clear colour of attachment i (counted from 0); clear_colors is an
\* Option<Vec<Vec<f64>>>: <<>> for None, <<colors>> for Some(colors)
ClearColor(i, clear_colors) ==
  IF clear_colors # <<>>
  THEN LET colors == clear_colors[1] IN
       IF i < Len(colors) /\ Len(colors[i + 1]) >= 4
       THEN <<colors[i + 1][1], colors[i + 1][2], colors[i + 1][3], colors[i + 1][4]>>
       ELSE Black
  ELSE Black

\* color_attachments.iter().enumerate().map(..): one native attachment per view
ColorAttachments(color_attachments, clear_colors) ==
  [k \in 1..color_attachments |->
     [load |-> "Clear", clear |-> ClearColor(k - 1, clear_colors), store |-> "Store"]]

\* enc.begin_render_pass(&wgpu::RenderPassDescriptor { color_attachments, .. })
BeginRenderPassCall(color_attachments, clear_colors) ==
  [fn |-> "begin_render_pass",
   color_attachments |-> ColorAttachments(color_attachments, clear_colors)]

BeginComputePassCall == [fn |-> "begin_compute_pass"]

\* faulty variant: the vertex buffers are set before the bind groups
PassPrologue_Swapped(begin, nbg, nvb) ==
  <<begin, [fn |-> "set_pipeline", pipeline |-> 1]>>
    \o VertexBufferCalls(nvb) \o BindGroupCalls(Unwrap(nbg, 0))

PassPrologue(begin, nbg, nvb) ==
  <<begin, [fn |-> "set_pipeline", pipeline |-> 1]>>
    \o BindGroupCalls(Unwrap(nbg, 0)) \o VertexBufferCalls(nvb)

PassEpilogue == <<[fn |-> "end"]>>

\* render_pass_indexed: "uint32" => Uint32, _ => Uint16
IndexedFormat(index_format) == IF index_format = "uint32" THEN "uint32" ELSE "uint16"

\* render_pass_indexed_indirect: "uint16" => Uint16, "uint32" => Uint32, _ => Uint16
IndexedIndirectFormat(index_format) ==
  IF index_format = "uint16" THEN "uint16"
  ELSE IF index_format = "uint32" THEN "uint32" ELSE "uint16"

ComputePass(nbg, x, y, z) ==
  EncoderOp(Req("compute_pass", <<nbg, x, y, z>>), "inline",
    PassPrologue(BeginComputePassCall, nbg, 0)
      \o <<[fn |-> "dispatch_workgroups", count |-> <<x, Unwrap(y, 1), Unwrap(z, 1)>>]>>
      \o PassEpilogue)

ComputePassIndirect(nbg, indirect_offset) ==
  EncoderOp(Req("compute_pass_indirect", <<nbg, indirect_offset>>), "inline",
    PassPrologue(BeginComputePassCall, nbg, 0)
      \o <<[fn |-> "dispatch_workgroups_indirect", offset |-> indirect_offset]>>
      \o PassEpilogue)

RenderPass(nbg, nvb, vertex_count, color_attachments, clear_colors) ==
  EncoderOp(Req("render_pass", <<nbg, nvb, vertex_count, color_attachments, clear_colors>>), "inline",
    PassPrologue(BeginRenderPassCall(color_attachments, clear_colors), nbg, nvb)
      \o <<[fn |-> "draw", vertices |-> <<0, vertex_count>>, instances |-> <<0, 1>>]>>
      \o PassEpilogue)

RenderPassIndexed(nbg, nvb, index_format, index_count, color_attachments, clear_colors) ==
  EncoderOp(Req("render_pass_indexed",
                <<nbg, nvb, index_format, index_count, color_attachments, clear_colors>>), "inline",
    PassPrologue(BeginRenderPassCall(color_attachments, clear_colors), nbg, nvb)
      \o <<[fn |-> "set_index_buffer", slice |-> <<0, BufferEnd>>,
            format |-> IndexedFormat(index_format)],
           [fn |-> "draw_indexed", instances |-> <<0, 1>>, base_vertex |-> 0,
            indices |-> <<0, index_count>>]>>
      \o PassEpilogue)

RenderPassIndirect(nbg, nvb, indirect_offset, color_attachments, clear_colors) ==
  EncoderOp(Req("render_pass_indirect",
                <<nbg, nvb, indirect_offset, color_attachments, clear_colors>>), "inline",
    PassPrologue(BeginRenderPassCall(color_attachments, clear_colors), nbg, nvb)
      \o <<[fn |-> "draw_indirect", offset |-> indirect_offset]>>
      \o PassEpilogue)

RenderPassIndexedIndirect(nbg, nvb, index_format, indirect_offset, color_attachments, clear_colors) ==
  EncoderOp(Req("render_pass_indexed_indirect",
                <<nbg, nvb, index_format, indirect_offset, color_attachments, clear_colors>>), "inline",
    PassPrologue(BeginRenderPassCall(color_attachments, clear_colors), nbg, nvb)
      \o <<[fn |-> "set_index_buffer", slice |-> <<0, BufferEnd>>,
            format |-> IndexedIndirectFormat(index_format)],
           [fn |-> "draw_indexed_indirect", offset |-> indirect_offset]>>
      \o PassEpilogue)

RenderPassBundles(nbundles, color_attachments, clear_colors) ==
  EncoderOp(Req("render_pass_bundles", <<nbundles, color_attachments, clear_colors>>), "inline",
    <<BeginRenderPassCall(color_attachments, clear_colors),
      [fn |-> "execute_bundles", bundles |-> nbundles]>>
      \o PassEpilogue)

WriteTimestamp(query_index) ==
  EncoderOp(Req("write_timestamp", <<query_index>>), "direct",
    <<[fn |-> "write_timestamp", index |-> query_index]>>)

\* `first_query + query_count` overflowing in a build with overflow checks
EncoderPanic(op) ==
  /\ crashed' = TRUE
  /\ last' = Request(Call("encop", 0, "some", FALSE, Panicked, 0), op)
  /\ UNCHANGED <<encoder, buffers, handle, session, ncalls, capture, queue, objects, gbuf>>

ResolveQuerySet(first_query, query_count) ==
  /\ ~crashed
  /\ encoder.st # "absent"
  /\ LET op == Req("resolve_query_set", <<first_query, query_count>>) IN
     IF EncoderIsSome
     THEN \/ Encode(op, "direct",
                    <<[fn |-> "resolve_query_set",
                       queries |-> U32Range(first_query, query_count)]>>)
          \/ U32Overflows(first_query, query_count) /\ EncoderPanic(op)
     ELSE AlreadyFinished(op)

CopyBufferToBufferStandard ==
  EncoderOp(Req("copyBufferToBuffer", <<>>), "direct", <<[fn |-> "copy_buffer_to_buffer"]>>)

CopyBufferToTextureStandard ==
  EncoderOp(Req("copyBufferToTexture", <<>>), "direct", <<[fn |-> "copy_buffer_to_texture"]>>)

CopyTextureToBufferStandard ==
  EncoderOp(Req("copyTextureToBuffer", <<>>), "direct", <<[fn |-> "copy_texture_to_buffer"]>>)

\* the deprecated GpuDevice wrappers take the encoder as an argument
DeviceCopyBufferToBuffer ==
  EncoderOp(Req("device.copy_buffer_to_buffer", <<>>), "direct", <<[fn |-> "copy_buffer_to_buffer"]>>)

DeviceCopyBufferToTexture ==
  EncoderOp(Req("device.copy_buffer_to_texture", <<>>), "direct", <<[fn |-> "copy_buffer_to_texture"]>>)

DeviceCopyTextureToBuffer ==
  EncoderOp(Req("device.copy_texture_to_buffer", <<>>), "direct", <<[fn |-> "copy_texture_to_buffer"]>>)

\* finish(): `self.encoder.take().map(|e| e.finish())`, returned without a Result
Finish ==
  /\ ~crashed
  /\ encoder.st # "absent"
  /\ Len(buffers) < MaxBuffers
  /\ IF EncoderIsSome
     THEN /\ buffers' = Append(buffers, [cmds |-> encoder.cmds, buffer |-> "Some"])
          /\ encoder' = [st |-> "none", cmds |-> <<>>]
          /\ last' = Call("finish", 0, "some", FALSE, Ok, 1)
     ELSE /\ buffers' = Append(buffers, [cmds |-> <<>>, buffer |-> "None"])
          /\ encoder' = encoder
          /\ last' = Call("finish", 0, "none", FALSE, Ok, 0)
  /\ UNCHANGED <<handle, session, ncalls, crashed, capture, queue, objects, gbuf>>


\* ------------------------------------------------------------- GpuQueue
\* device.createCommandEncoder called again: every call returns a fresh
\* encoder, here once the host has finished the one before
CreateNextCommandEncoder ==
  /\ ~crashed
  /\ encoder.st = "none"
  /\ encoder' = [st |-> "some", cmds |-> <<>>]
  /\ last' = Call("create", 0, "none", FALSE, Ok, 0)
  /\ UNCHANGED <<buffers, handle, session, ncalls, crashed, capture, queue, objects, gbuf>>

\* faulty variant: the lists are read without being taken
FilterMapTake_Peek(command_buffers, bufs, taken) ==
  [bufs |-> bufs,
   taken |-> taken \o [k \in 1..Len(command_buffers) |->
                         [cmds |-> bufs[command_buffers[k]].cmds, id |-> command_buffers[k]]]]

\* command_buffers.into_iter().filter_map(|cb| cb.buffer.take()).collect():
\* the lists taken, in array order, and the command buffers afterwards
RECURSIVE FilterMapTake(_, _, _)
FilterMapTake(command_buffers, bufs, taken) ==
  IF command_buffers = <<>> THEN [bufs |-> bufs, taken |-> taken]
  ELSE LET cb == Head(command_buffers) IN
       IF bufs[cb].buffer = "Some"
       THEN FilterMapTake(Tail(command_buffers),
                          [bufs EXCEPT ![cb] = [cmds |-> <<>>, buffer |-> "None"]],
                          Append(taken, [cmds |-> bufs[cb].cmds, id |-> cb]))
       ELSE FilterMapTake(Tail(command_buffers), bufs, taken)

\* queue.submit: the array holds references to GpuCommandBuffer objects,
\* named by their position in `buffers`
Submit(command_buffers) ==
  /\ ~crashed
  /\ \A k \in 1..Len(command_buffers) : command_buffers[k] \in 1..Len(buffers)
  /\ LET r == FilterMapTake(command_buffers, buffers, <<>>)
     IN  /\ buffers' = r.bufs
         /\ queue' = queue \o r.taken
         /\ last' = Request(Call("submit", 0, "none", FALSE, Ok, 1),
                            Req("submit", <<command_buffers>>))
  /\ UNCHANGED <<encoder, handle, session, ncalls, crashed, capture, objects, gbuf>>

\* device.queue_submit: `if let Some(buffer) = command_buffer.buffer.take()`
QueueSubmit(command_buffer) ==
  /\ ~crashed
  /\ command_buffer \in 1..Len(buffers)
  /\ IF buffers[command_buffer].buffer = "Some"
     THEN /\ buffers' = [buffers EXCEPT ![command_buffer] = [cmds |-> <<>>, buffer |-> "None"]]
          /\ queue' = Append(queue, [cmds |-> buffers[command_buffer].cmds, id |-> command_buffer])
          /\ last' = Request(Call("submit", 0, "none", FALSE, Ok, 1),
                             Req("queue_submit", <<command_buffer>>))
     ELSE /\ UNCHANGED <<buffers, queue>>
          /\ last' = Request(Call("submit", 0, "none", FALSE, Ok, 0),
                             Req("queue_submit", <<command_buffer>>))
  /\ UNCHANGED <<encoder, handle, session, ncalls, crashed, capture, objects, gbuf>>


\* ------------------------------------------------------------ string parsers
\* An Option<String> is kept as a sequence: <<>> for None, <<s>> for Some(s).
NoString == <<>>

Some(x) == <<x>>

\* parse_texture_format
ParseTextureFormat(format) ==
  CASE format = "rgba8unorm" -> "Rgba8Unorm"
    [] format = "bgra8unorm" -> "Bgra8Unorm"
    [] format = "rgba16float" -> "Rgba16Float"
    [] format = "rgba32float" -> "Rgba32Float"
    [] format = "depth24plus" -> "Depth24Plus"
    [] format = "depth32float" -> "Depth32Float"
    [] OTHER -> "Rgba8Unorm"

\* parse_vertex_format
ParseVertexFormat(format) ==
  CASE format = "float32" -> "Float32"
    [] format = "float32x2" -> "Float32x2"
    [] format = "float32x3" -> "Float32x3"
    [] format = "float32x4" -> "Float32x4"
    [] format = "uint32" -> "Uint32"
    [] format = "sint32" -> "Sint32"
    [] OTHER -> "Float32x3"

\* parse_address_mode
ParseAddressMode(mode) ==
  CASE mode = Some("clamp-to-edge") -> "ClampToEdge"
    [] mode = Some("repeat") -> "Repeat"
    [] mode = Some("mirror-repeat") -> "MirrorRepeat"
    [] OTHER -> "ClampToEdge"

\* parse_filter_mode
ParseFilterMode(mode) ==
  CASE mode = Some("linear") -> "Linear"
    [] mode = Some("nearest") -> "Nearest"
    [] OTHER -> "Nearest"

\* parse_compare_function: Option<CompareFunction>, None for an absent or unknown token
ParseCompareFunction(func) ==
  CASE func = Some("never") -> Some("Never")
    [] func = Some("less") -> Some("Less")
    [] func = Some("equal") -> Some("Equal")
    [] func = Some("less-equal") -> Some("LessEqual")
    [] func = Some("greater") -> Some("Greater")
    [] func = Some("not-equal") -> Some("NotEqual")
    [] func = Some("greater-equal") -> Some("GreaterEqual")
    [] func = Some("always") -> Some("Always")
    [] OTHER -> <<>>

\* parse_blend_factor
ParseBlendFactor(factor) ==
  CASE factor = "zero" -> "Zero"
    [] factor = "one" -> "One"
    [] factor = "src" -> "Src"
    [] factor = "one-minus-src" -> "OneMinusSrc"
    [] factor = "src-alpha" -> "SrcAlpha"
    [] factor = "one-minus-src-alpha" -> "OneMinusSrcAlpha"
    [] factor = "dst" -> "Dst"
    [] factor = "one-minus-dst" -> "OneMinusDst"
    [] factor = "dst-alpha" -> "DstAlpha"
    [] factor = "one-minus-dst-alpha" -> "OneMinusDstAlpha"
    [] factor = "src-alpha-saturated" -> "SrcAlphaSaturated"
    [] factor = "constant" -> "Constant"
    [] factor = "one-minus-constant" -> "OneMinusConstant"
    [] OTHER -> "One"

\* parse_blend_operation
ParseBlendOperation(operation) ==
  CASE operation = "add" -> "Add"
    [] operation = "subtract" -> "Subtract"
    [] operation = "reverse-subtract" -> "ReverseSubtract"
    [] operation = "min" -> "Min"
    [] operation = "max" -> "Max"
    [] OTHER -> "Add"

\* create_render_pipeline: match buf.step_mode
StepMode(step_mode) == IF step_mode = Some("instance") THEN "Instance" ELSE "Vertex"

\* create_render_pipeline: match prim.topology
Topology(topology) ==
  CASE topology = Some("point-list") -> "PointList"
    [] topology = Some("line-list") -> "LineList"
    [] topology = Some("line-strip") -> "LineStrip"
    [] topology = Some("triangle-strip") -> "TriangleStrip"
    [] OTHER -> "TriangleList"

\* create_render_pipeline: match prim.front_face
FrontFace(front_face) == IF front_face = Some("cw") THEN "Cw" ELSE "Ccw"

\* create_render_pipeline: match prim.cull_mode
CullMode(cull_mode) ==
  CASE cull_mode = Some("front") -> Some("Front")
    [] cull_mode = Some("back") -> Some("Back")
    [] OTHER -> <<>>

\* faulty variant: the token is matched in its underscore spelling
DepthCompare_Underscore(depth_compare) ==
  CASE depth_compare = Some("never") -> "Never"
    [] depth_compare = Some("less") -> "Less"
    [] depth_compare = Some("equal") -> "Equal"
    [] depth_compare = Some("less_equal") -> "LessEqual"
    [] depth_compare = Some("greater") -> "Greater"
    [] depth_compare = Some("not_equal") -> "NotEqual"
    [] depth_compare = Some("greater_equal") -> "GreaterEqual"
    [] depth_compare = Some("always") -> "Always"
    [] OTHER -> "Less"

\* create_render_pipeline: match ds.depth_compare
DepthCompare(depth_compare) ==
  CASE depth_compare = Some("never") -> "Never"
    [] depth_compare = Some("less") -> "Less"
    [] depth_compare = Some("equal") -> "Equal"
    [] depth_compare = Some("less-equal") -> "LessEqual"
    [] depth_compare = Some("greater") -> "Greater"
    [] depth_compare = Some("not-equal") -> "NotEqual"
    [] depth_compare = Some("greater-equal") -> "GreaterEqual"
    [] depth_compare = Some("always") -> "Always"
    [] OTHER -> "Less"

\* create_texture: match descriptor.dimension
TextureDimension(dimension) ==
  CASE dimension = Some("1d") -> "D1"
    [] dimension = Some("3d") -> "D3"
    [] OTHER -> "D2"


\* ------------------------------------------------- GpuDevice: object factory
InvalidQueryType == "Invalid query type: "

\* the device hands a descriptor to the native library, which creates the object
Create(op, object) ==
  /\ ~crashed
  /\ Len(objects) < MaxObjects
  /\ objects' = Append(objects, object)
  /\ last' = Request(Call("device", 0, "none", FALSE, Ok, 1), op)
  /\ UNCHANGED <<encoder, buffers, handle, session, ncalls, crashed, capture, queue, gbuf>>

\* an early `return Err(..)` before the native call: nothing is created
Refuse(op, res) ==
  /\ ~crashed
  /\ last' = Request(Call("device", 0, "none", TRUE, res, 0), op)
  /\ UNCHANGED <<encoder, buffers, handle, session, ncalls, crashed, capture, queue, objects, gbuf>>

\* device.createTexture
CreateTexture(descriptor) ==
  Create(Req("create_texture", <<descriptor>>),
         [format |-> ParseTextureFormat(descriptor.format),
          dimension |-> TextureDimension(descriptor.dimension),
          ty |-> "texture"])

\* device.createSampler
CreateSampler(descriptor) ==
  Create(Req("create_sampler", <<descriptor>>),
         [ty |-> "sampler",
          address_mode_u |-> ParseAddressMode(descriptor.address_mode_u),
          address_mode_v |-> ParseAddressMode(descriptor.address_mode_v),
          address_mode_w |-> ParseAddressMode(descriptor.address_mode_w),
          mag_filter |-> ParseFilterMode(descriptor.mag_filter),
          min_filter |-> ParseFilterMode(descriptor.min_filter),
          mipmap_filter |-> ParseFilterMode(descriptor.mipmap_filter),
          compare |-> ParseCompareFunction(descriptor.compare)])

\* the match on descriptor.query_type: a native query type or the early error
QueryTypeOk(query_type) == query_type \in {"timestamp", "occlusion"}

QueryType(query_type) == IF query_type = "timestamp" THEN "Timestamp" ELSE "Occlusion"

\* device.createQuerySet
CreateQuerySet(descriptor) ==
  LET op == Req("create_query_set", <<descriptor>>) IN
  IF QueryTypeOk(descriptor.query_type)
  THEN Create(op, [count |-> descriptor.count, ty |-> "query_set",
                   query_type |-> QueryType(descriptor.query_type)])
  ELSE Refuse(op, ErrArg(InvalidQueryType, descriptor.query_type))

\* wgpu::BlendComponent from a descriptor's BlendComponent
BlendComponent(c) ==
  [operation |-> ParseBlendOperation(c.operation),
   src_factor |-> ParseBlendFactor(c.src_factor),
   dst_factor |-> ParseBlendFactor(c.dst_factor)]

\* wgpu::PrimitiveState::default()
DefaultPrimitive == [topology |-> "TriangleList", front_face |-> "Ccw", cull_mode |-> <<>>]

\* device.createRenderPipeline: vertex buffers, primitive, depth/stencil and
\* fragment targets are translated field by field; absent parts stay absent
\* or take the native default
CreateRenderPipeline(descriptor) ==
  Create(Req("create_render_pipeline", <<descriptor>>),
    [buffers |->
       [i \in 1..Len(descriptor.buffers) |->
          [step_mode |-> StepMode(descriptor.buffers[i].step_mode),
           attributes |->
             [j \in 1..Len(descriptor.buffers[i].attributes) |->
                [format |-> ParseVertexFormat(descriptor.buffers[i].attributes[j].format)]]]],
     ty |-> "render_pipeline",
     primitive |->
       IF descriptor.primitive = <<>> THEN DefaultPrimitive
       ELSE [topology |-> Topology(descriptor.primitive[1].topology),
             front_face |-> FrontFace(descriptor.primitive[1].front_face),
             cull_mode |-> CullMode(descriptor.primitive[1].cull_mode)],
     depth_stencil |->
       [i \in 1..Len(descriptor.depth_stencil) |->
          [format |-> ParseTextureFormat(descriptor.depth_stencil[i].format),
           depth_compare |-> DepthCompare(descriptor.depth_stencil[i].depth_compare)]],
     targets |->
       [i \in 1..Len(descriptor.targets) |->
          [format |-> ParseTextureFormat(descriptor.targets[i].format),
           blend |->
             [k \in 1..Len(descriptor.targets[i].blend) |->
                [color |-> BlendComponent(descriptor.targets[i].blend[k].color),
                 alpha |-> BlendComponent(descriptor.targets[i].blend[k].alpha)]]]]])


\* ------------------------------------------------------------------- Next
NoColors == <<>>
OptOffsets == {None, 8}
OptSizes == {None, 4}
ListLens == {0, 1}
OptListLens == {None, 1}
OptU32s == {NoU32, U32(2)}
OptFirsts == {NoU32, U32Max}

RenderNext(h) ==
  \/ RenderSetPipeline(h, 1)
  \/ \E index \in {0} : \E off \in {None, 256} : RenderSetBindGroup(h, index, off)
  \/ \E off \in OptOffsets : \E sz \in OptSizes : RenderSetVertexBuffer(h, 0, off, sz)
  \/ \E f \in IndexFormats : RenderSetIndexBuffer(h, f, None, None)
  \/ \E ic \in OptU32s : \E fv \in OptFirsts : RenderDraw(h, U32(3), ic, fv, NoU32)
  \/ \E fi \in OptFirsts : RenderDrawIndexed(h, U32(6), NoU32, fi, None, NoU32)
  \/ RenderDrawIndirect(h, 0)
  \/ RenderDrawIndexedIndirect(h, 0)
  \/ RenderExecuteBundles(h, 1)
  \/ RenderSetViewport(h)
  \/ RenderSetScissorRect(h)
  \/ \E c \in BlendColors : RenderSetBlendConstant(h, c)
  \/ RenderSetStencilReference(h)
  \/ RenderPushDebugGroup(h)
  \/ RenderPopDebugGroup(h)
  \/ RenderInsertDebugMarker(h)
  \/ RenderEnd(h)
  \/ RenderDrop(h)

ComputeNext(h) ==
  \/ ComputeSetPipeline(h, 1)
  \/ ComputeSetBindGroup(h, 0, None)
  \/ \E y \in OptCounts : ComputeDispatchWorkgroups(h, 4, y, None)
  \/ ComputeDispatchWorkgroupsIndirect(h, 0)
  \/ ComputePushDebugGroup(h)
  \/ ComputePopDebugGroup(h)
  \/ ComputeInsertDebugMarker(h)
  \/ ComputeEnd(h)
  \/ ComputeDrop(h)

LifeNext ==
  \/ CreateCommandEncoder
  \/ BeginRenderPass
  \/ BeginComputePass
  \/ Finish

EncoderNext ==
  \/ \E n \in ListLens : ComputePass(n, 4, None, None)
  \/ ComputePassIndirect(1, 0)
  \/ \E n \in OptListLens : RenderPass(n, 1, 3, 1, NoColors)
  \/ \E f \in IndexFormats : RenderPassIndexed(None, 1, f, 6, 1, NoColors)
  \/ RenderPassIndirect(None, 1, 0, 1, NoColors)
  \/ \E f \in IndexFormats : RenderPassIndexedIndirect(None, 1, f, 0, 1, NoColors)
  \/ RenderPassBundles(1, 1, NoColors)
  \/ WriteTimestamp(0)
  \/ \E fq \in {U32(0), U32Max} : ResolveQuerySet(fq, U32(2))
  \/ CopyBufferToBufferStandard
  \/ CopyBufferToTextureStandard
  \/ CopyTextureToBufferStandard
  \/ DeviceCopyBufferToBuffer
  \/ DeviceCopyBufferToTexture
  \/ DeviceCopyTextureToBuffer

Next ==
  \/ LifeNext
  \/ EncoderNext
  \/ \E h \in Handles : RenderNext(h)
  \/ \E h \in Handles : ComputeNext(h)

Spec == Init /\ [][Next]_vars

\* the command encoder alone, no pass handle, every native call observed in full
CommandNext ==
  \/ CreateCommandEncoder
  \/ EncoderNext
  \/ Finish

SpecEncoder == InitArgs /\ [][CommandNext]_vars


\* the OPEN pass handles with every request and native call observed in full:
\* pipeline, bindings, buffers, draws and dispatches, then end and finish
RecordNext ==
  \/ CreateCommandEncoder
  \/ EncoderIsSome /\ BeginRenderPass
  \/ EncoderIsSome /\ BeginComputePass
  \/ \E h \in Handles : PassIsSome(h) /\ \E p \in {1, 2} : RenderSetPipeline(h, p)
  \/ \E h \in Handles : PassIsSome(h) /\ \E off \in {None, 256} : RenderSetBindGroup(h, 0, off)
  \/ \E h \in Handles : PassIsSome(h) /\ \E a \in {<<None, None>>, <<8, 4>>} :
       RenderSetVertexBuffer(h, 0, a[1], a[2])
  \/ \E h \in Handles : PassIsSome(h) /\ \E f \in {"uint16", "uint8"} :
       RenderSetIndexBuffer(h, f, None, None)
  \/ \E h \in Handles : PassIsSome(h) /\ RenderDraw(h, U32(3), NoU32, NoU32, NoU32)
  \/ \E h \in Handles : PassIsSome(h) /\ RenderEnd(h)
  \/ \E h \in Handles : PassIsSome(h) /\ ComputeSetPipeline(h, 1)
  \/ \E h \in Handles : PassIsSome(h) /\ ComputeSetBindGroup(h, 0, None)
  \/ \E h \in Handles : PassIsSome(h) /\ \E y \in OptCounts : ComputeDispatchWorkgroups(h, 4, y, None)
  \/ \E h \in Handles : PassIsSome(h) /\ ComputeEnd(h)
  \/ EncoderIsSome /\ Finish

SpecRecord == InitArgs /\ [][RecordNext]_vars


\* draws and query resolution on u32 arguments up to u32::MAX, observed in full
DrawArgs ==
  {<<U32(3), NoU32, NoU32, NoU32>>, <<U32(3), U32(2), U32(1), U32(1)>>,
   <<U32(3), NoU32, U32Max, NoU32>>, <<U32(1), U32Max, NoU32, U32(1)>>}

DrawNext ==
  \/ CreateCommandEncoder
  \/ EncoderIsSome /\ BeginRenderPass
  \/ \E h \in Handles : PassIsSome(h) /\ RenderSetPipeline(h, 1)
  \/ \E h \in Handles : PassIsSome(h) /\ RenderSetVertexBuffer(h, 0, None, None)
  \/ \E h \in Handles : PassIsSome(h) /\ \E a \in DrawArgs : RenderDraw(h, a[1], a[2], a[3], a[4])
  \/ \E h \in Handles : PassIsSome(h) /\ \E a \in DrawArgs :
       RenderDrawIndexed(h, a[1], a[2], a[3], None, a[4])
  \/ \E h \in Handles : PassIsSome(h) /\ RenderEnd(h)
  \/ EncoderIsSome /\ \E a \in {<<U32(0), U32(2)>>, <<U32Max, U32(2)>>} : ResolveQuerySet(a[1], a[2])
  \/ EncoderIsSome /\ Finish

SpecDraw == InitArgs /\ [][DrawNext]_vars


\* --------------------------------------------------- descriptors of the host
\* strings outside every vocabulary: empty, wrong case, a token of another
\* vocabulary, a native format the binding does not list
Unknown == {"", "RGBA8UNORM", "uint32x9", "rgba8snorm"}

TextureFormatTokens ==
  {"rgba8unorm", "bgra8unorm", "rgba16float", "rgba32float", "depth24plus", "depth32float",
   "float32"} \cup Unknown

VertexFormatTokens ==
  {"float32", "float32x2", "float32x3", "float32x4", "uint32", "sint32", "rgba8unorm"}
    \cup Unknown

AddressModeTokens == {"clamp-to-edge", "repeat", "mirror-repeat", "linear"} \cup Unknown

FilterModeTokens == {"linear", "nearest", "repeat"} \cup Unknown

CompareTokens ==
  {"never", "less", "equal", "less-equal", "greater", "not-equal", "greater-equal", "always",
   "less_equal"} \cup Unknown

BlendFactorTokens ==
  {"zero", "one", "src", "one-minus-src", "src-alpha", "one-minus-src-alpha", "dst",
   "one-minus-dst", "dst-alpha", "one-minus-dst-alpha", "src-alpha-saturated", "constant",
   "one-minus-constant", "add"} \cup Unknown

BlendOperationTokens == {"add", "subtract", "reverse-subtract", "min", "max", "one"} \cup Unknown

TopologyTokens ==
  {"point-list", "line-list", "line-strip", "triangle-list", "triangle-strip", "triangle-fan"}
    \cup Unknown

\* Option<String> over a set of tokens
Opt(tokens) == {NoString} \cup {Some(t) : t \in tokens}

TextureDescriptors ==
  {[format |-> f, dimension |-> NoString] : f \in TextureFormatTokens}
    \cup {[format |-> "rgba8unorm", dimension |-> d] : d \in Opt({"1d", "2d", "3d"})}

BaseSampler ==
  [address_mode_u |-> NoString, address_mode_v |-> NoString, address_mode_w |-> NoString,
   mag_filter |-> NoString, min_filter |-> NoString, mipmap_filter |-> NoString,
   compare |-> NoString]

SamplerDescriptors ==
  {[BaseSampler EXCEPT !.address_mode_u = m] : m \in Opt(AddressModeTokens)}
    \cup {[BaseSampler EXCEPT !.address_mode_v = Some("repeat"),
                              !.address_mode_w = Some("mirror-repeat")]}
    \cup {[BaseSampler EXCEPT !.mag_filter = m] : m \in Opt(FilterModeTokens)}
    \cup {[BaseSampler EXCEPT !.min_filter = Some("linear"), !.mipmap_filter = Some("nearest")]}
    \cup {[BaseSampler EXCEPT !.compare = c] : c \in Opt(CompareTokens)}

BaseComponent == [operation |-> "add", src_factor |-> "one", dst_factor |-> "zero"]

BaseBlend == [color |-> BaseComponent, alpha |-> BaseComponent]

BasePrimitive == [topology |-> NoString, front_face |-> NoString, cull_mode |-> NoString]

BasePipeline ==
  [buffers |-> <<>>, primitive |-> <<>>, depth_stencil |-> <<>>, targets |-> <<>>]

VertexBuffers(format, step_mode) ==
  <<[step_mode |-> step_mode, attributes |-> <<[format |-> format], [format |-> "float32x2"]>>]>>

RenderPipelineDescriptors ==
  {BasePipeline}
    \cup {[BasePipeline EXCEPT !.buffers = VertexBuffers(f, NoString)] : f \in VertexFormatTokens}
    \cup {[BasePipeline EXCEPT !.buffers = VertexBuffers("float32", m)] :
            m \in Opt({"vertex", "instance", ""})}
    \cup {[BasePipeline EXCEPT !.primitive = Some([BasePrimitive EXCEPT !.topology = t])] :
            t \in Opt(TopologyTokens)}
    \cup {[BasePipeline EXCEPT !.primitive =
             Some([BasePrimitive EXCEPT !.front_face = Some(ff), !.cull_mode = Some(cm)])] :
            ff \in {"cw", "ccw"}, cm \in {"none", "front", "back"}}
    \cup {[BasePipeline EXCEPT !.depth_stencil = Some([format |-> "depth24plus", depth_compare |-> c])] :
            c \in Opt(CompareTokens)}
    \cup {[BasePipeline EXCEPT !.depth_stencil = Some([format |-> f, depth_compare |-> NoString])] :
            f \in {"depth32float", "depth16unorm"}}
    \cup {[BasePipeline EXCEPT !.targets = <<[format |-> f, blend |-> <<>>]>>] :
            f \in TextureFormatTokens}
    \cup {[BasePipeline EXCEPT !.targets =
             <<[format |-> "bgra8unorm",
                blend |-> Some([BaseBlend EXCEPT !.color.src_factor = f])]>>] :
            f \in BlendFactorTokens}
    \cup {[BasePipeline EXCEPT !.targets =
             <<[format |-> "bgra8unorm",
                blend |-> Some([BaseBlend EXCEPT !.alpha.dst_factor = f])]>>] :
            f \in {"one-minus-src-alpha", "dst", ""}}
    \cup {[BasePipeline EXCEPT !.targets =
             <<[format |-> "bgra8unorm",
                blend |-> Some([BaseBlend EXCEPT !.color.operation = o])]>>] :
            o \in BlendOperationTokens}
    \cup {[BasePipeline EXCEPT !.targets =
             <<[format |-> "bgra8unorm",
                blend |-> Some([BaseBlend EXCEPT !.alpha.operation = "max"])]>>]}

QuerySetDescriptors ==
  {[count |-> 2, query_type |-> t] :
     t \in {"timestamp", "occlusion", "pipeline-statistics", "Timestamp", ""}}

\* the device's object factory, every descriptor observed in full
DeviceNext ==
  \/ \E d \in TextureDescriptors : CreateTexture(d)
  \/ \E d \in SamplerDescriptors : CreateSampler(d)
  \/ \E d \in RenderPipelineDescriptors : CreateRenderPipeline(d)
  \/ \E d \in QuerySetDescriptors : CreateQuerySet(d)

SpecDevice == InitArgs /\ [][DeviceNext]_vars


\* -------------------------------------------------------------- GpuBuffer
MaxInFlight == 1

MustBeMapped == "Buffer must be mapped before calling getMappedRange(). Current state: "
InvalidMapMode == "Invalid map mode: "
FailedToMap == "Failed to map buffer: "
OffsetAlignment == "Offset must be a multiple of 8"
SizeAlignment == "Size must be a multiple of 4"
RangeExceeds == "Range exceeds buffer size"
RangeOverlaps == "getMappedRange() range overlaps with existing range"

\* a u64 that lies within 2^31 of 0 or of 2^64 is written as the integer
\* nearest to 0 that is congruent to it modulo 2^64: n >= 0 stands for n,
\* n < 0 for 2^64 + n.  Sums and differences of such values are then the
\* wrapping sums and differences; the order on u64 is U64Lt
U64Lt(a, b) == IF (a < 0) = (b < 0) THEN a < b ELSE b < 0

U64WrappingSub(a, b) == a - b

U64WrappingAdd(a, b) == a + b

\* a - b leaves the u64 range
U64SubOverflows(a, b) == U64Lt(a, b)

\* the record of a host call on the buffer; pre is the map state it found
BufferCall(op, pre, bad, res, fwd) == Request(Call("buffer", 0, pre, bad, res, fwd), op)

\* the map_async calls the model follows at one time, and where each stands:
\* before its native request ("request"), after the device poll with the
\* callback's result in hand ("resolve"), or not running
MapCalls == 1..MaxInFlight
Idle == [pc |-> "idle", result |-> "none"]

\* the promise of a map_async call that has not resolved
Pending == [msg |-> "pending", arg |-> ""]

\* faulty variant: the map state starts as an empty string
GpuBufferNew_Unset(buffer) ==
  [st |-> "live", buffer |-> buffer, pending_writes |-> <<>>, mapped_data |-> <<>>,
   map_state |-> "", active_ranges |-> <<>>, inflight |-> [c \in MapCalls |-> Idle]]

\* GpuBuffer::new; mapped_data is None (<<>>) or Some(length) (<<length>>),
\* inflight holds the map_async calls that have not resolved
GpuBufferNew(buffer) ==
  [st |-> "live", buffer |-> buffer, pending_writes |-> <<>>, mapped_data |-> <<>>,
   map_state |-> "unmapped", active_ranges |-> <<>>, inflight |-> [c \in MapCalls |-> Idle]]

\* create_buffer: the native buffer is mapped when mapped_at_creation says so,
\* and the host object is always built by GpuBuffer::new
CreateBuffer(descriptor) ==
  /\ ~crashed
  /\ gbuf.st = "absent"
  /\ LET buffer == [size |-> descriptor.size,
                    copy_dst |-> descriptor.copy_dst,
                    mapped |-> IF descriptor.mapped_at_creation = <<>> THEN FALSE
                               ELSE descriptor.mapped_at_creation[1],
                    written |-> <<>>]
     IN  /\ gbuf' = GpuBufferNew(buffer)
         /\ last' = BufferCall(Req("create_buffer", <<descriptor>>), "none", FALSE, Ok, 1)
  /\ UNCHANGED <<encoder, buffers, handle, session, ncalls, crashed, capture, queue, objects>>

\* map_state: returns a copy of the tracked state
MapState ==
  /\ ~crashed
  /\ gbuf.st = "live"
  /\ last' = BufferCall(Req("map_state", <<>>), gbuf.map_state, FALSE,
                        [msg |-> "Ok", arg |-> gbuf.map_state], 0)
  /\ UNCHANGED <<encoder, buffers, handle, session, ncalls, crashed, capture, queue, objects, gbuf>>

MapModeOk(mode) == mode \in {"READ", "WRITE"}

\* map_async up to the mode match: the state becomes "pending"; an invalid
\* mode returns at once, a valid one leaves the call in flight
MapAsync(mode) ==
  /\ ~crashed
  /\ gbuf.st = "live"
  /\ LET op == Req("map_async", <<mode>>)
         free == {c \in MapCalls : gbuf.inflight[c] = Idle}
     IN  IF MapModeOk(mode)
         THEN /\ free # {}
              /\ LET c == CHOOSE x \in free : \A y \in free : x <= y
                 IN  gbuf' = [gbuf EXCEPT !.map_state = "pending",
                                          !.inflight[c] = [pc |-> "request", result |-> "none"]]
              /\ last' = BufferCall(op, gbuf.map_state, FALSE, Pending, 0)
         ELSE /\ gbuf' = [gbuf EXCEPT !.map_state = "pending"]
              /\ last' = BufferCall(op, gbuf.map_state, TRUE, ErrArg(InvalidMapMode, mode), 0)
  /\ UNCHANGED <<encoder, buffers, handle, session, ncalls, crashed, capture, queue, objects>>

\* map_async, the native request and the device poll: the native buffer maps
\* or refuses (it refuses when it is mapped already) and the callback hands
\* the result to the waiting call
MapAsyncPoll(c) ==
  /\ ~crashed
  /\ gbuf.st = "live"
  /\ gbuf.inflight[c].pc = "request"
  /\ \E result \in (IF gbuf.buffer.mapped THEN {"err"} ELSE {"ok", "err"}) :
       gbuf' = [gbuf EXCEPT !.buffer.mapped = @ \/ result = "ok",
                            !.inflight[c] = [pc |-> "resolve", result |-> result]]
  /\ last' = BufferCall(Req("map_async_poll", <<c>>), gbuf.map_state, FALSE, Pending, 1)
  /\ UNCHANGED <<encoder, buffers, handle, session, ncalls, crashed, capture, queue, objects>>

\* faulty variant: the call resolves Ok whatever the callback said
MapAsyncResolve_Ok(c) ==
  /\ ~crashed
  /\ gbuf.st = "live"
  /\ gbuf.inflight[c].pc = "resolve"
  /\ gbuf' = [gbuf EXCEPT !.map_state = "mapped", !.inflight[c] = Idle]
  /\ last' = BufferCall(Req("map_async_resolve", <<c>>), gbuf.map_state, FALSE, Ok, 0)
  /\ UNCHANGED <<encoder, buffers, handle, session, ncalls, crashed, capture, queue, objects>>

\* map_async after the await: the state follows the result, which is returned
MapAsyncResolve(c) ==
  /\ ~crashed
  /\ gbuf.st = "live"
  /\ gbuf.inflight[c].pc = "resolve"
  /\ IF gbuf.inflight[c].result = "ok"
     THEN /\ gbuf' = [gbuf EXCEPT !.map_state = "mapped", !.inflight[c] = Idle]
          /\ last' = BufferCall(Req("map_async_resolve", <<c>>), gbuf.map_state, FALSE, Ok, 0)
     ELSE /\ gbuf' = [gbuf EXCEPT !.map_state = "unmapped", !.inflight[c] = Idle]
          /\ last' = BufferCall(Req("map_async_resolve", <<c>>), gbuf.map_state, FALSE,
                                Err(FailedToMap), 0)
  /\ UNCHANGED <<encoder, buffers, handle, session, ncalls, crashed, capture, queue, objects>>

\* faulty variant: anything but "unmapped" passes
MapStateOk_Pending(state) == state # "unmapped"

\* the state check of get_mapped_range
MapStateOk(state) == state = "mapped"

\* faulty variant: only a range that starts inside an active range overlaps
Overlaps_Start(ranges, range_start, range_end) ==
  \E i \in 1..Len(ranges) :
    LET active_start == ranges[i][1]
        active_end == U64WrappingAdd(ranges[i][1], ranges[i][2])
    IN  ~U64Lt(range_start, active_start) /\ U64Lt(range_start, active_end)

\* the loop over active_ranges
Overlaps(ranges, range_start, range_end) ==
  \E i \in 1..Len(ranges) :
    LET active_start == ranges[i][1]
        active_end == U64WrappingAdd(ranges[i][1], ranges[i][2])
    IN  U64Lt(range_start, active_end) /\ U64Lt(active_start, range_end)

\* an early return of a buffer operation: nothing changes
BufferRefuse(op, res) ==
  /\ last' = BufferCall(op, gbuf.map_state, TRUE, res, 0)
  /\ UNCHANGED <<encoder, buffers, handle, session, ncalls, crashed, capture, queue, objects, gbuf>>

\* the native slice and get_mapped_range accept a range inside a mapped buffer
SliceOk(buffer, offset, size) ==
  /\ buffer.mapped
  /\ offset >= 0 /\ size > 0
  /\ offset + size <= buffer.size

\* get_mapped_range: the state check, the defaults, the alignment, bounds and
\* overlap checks, the push onto active_ranges and the native read.  The
\* default size is an unchecked u64 subtraction: when it underflows the call
\* panics (overflow checks on) or goes on with the wrapped value
GetMappedRange(offset, size) ==
  /\ ~crashed
  /\ gbuf.st = "live"
  /\ LET op == Req("get_mapped_range", <<offset, size>>)
         buffer_size == gbuf.buffer.size
         off == Unwrap(offset, 0)
         sz == IF size = None THEN U64WrappingSub(buffer_size, off) ELSE size
         range_end == U64WrappingAdd(off, sz)
         pushed == [gbuf EXCEPT !.active_ranges = Append(@, <<off, sz>>)]
     IN  IF ~MapStateOk(gbuf.map_state)
         THEN BufferRefuse(op, ErrArg(MustBeMapped, gbuf.map_state))
         ELSE \/ /\ size = None /\ U64SubOverflows(buffer_size, off)
                 /\ last' = BufferCall(op, gbuf.map_state, FALSE, Panicked, 0)
                 /\ crashed' = TRUE
                 /\ UNCHANGED <<encoder, buffers, handle, session, ncalls, capture, queue, objects, gbuf>>
              \/ IF off % 8 # 0 THEN BufferRefuse(op, Err(OffsetAlignment))
                 ELSE IF sz % 4 # 0 THEN BufferRefuse(op, Err(SizeAlignment))
                 ELSE IF U64Lt(buffer_size, range_end) THEN BufferRefuse(op, Err(RangeExceeds))
                 ELSE IF Overlaps(gbuf.active_ranges, off, range_end)
                      THEN BufferRefuse(op, Err(RangeOverlaps))
                 ELSE IF SliceOk(gbuf.buffer, off, sz)
                      THEN /\ gbuf' = [pushed EXCEPT !.mapped_data = <<sz>>]
                           /\ last' = BufferCall(op, gbuf.map_state, FALSE, Ok, 1)
                           /\ UNCHANGED <<encoder, buffers, handle, session, ncalls, crashed,
                                          capture, queue, objects>>
                      ELSE /\ gbuf' = pushed
                           /\ last' = BufferCall(op, gbuf.map_state, FALSE, Panicked, 1)
                           /\ crashed' = TRUE
                           /\ UNCHANGED <<encoder, buffers, handle, session, ncalls,
                                          capture, queue, objects>>

\* unmap: the native buffer is unmapped on every path, then the pending
\* writes and the active ranges are cleared and the state is "unmapped".  A
\* modified buffer (Some(length): <<length>>) is written at offset 0: through
\* the queue with COPY_DST, else through a native mapped view of the whole
\* buffer, which faults on a buffer that is not mapped and skips data longer
\* than the buffer.  buffer.written is what this call wrote: (offset, length)
Unmap(modified_buffer) ==
  /\ ~crashed
  /\ gbuf.st = "live"
  /\ LET op == Req("unmap", <<modified_buffer>>)
         has_copy_dst == gbuf.buffer.copy_dst
         written == IF modified_buffer = <<>> THEN <<>>
                    ELSE IF has_copy_dst \/ modified_buffer[1] <= gbuf.buffer.size
                         THEN <<0, modified_buffer[1]>>
                         ELSE <<>>
     IN  IF modified_buffer # <<>> /\ ~has_copy_dst /\ ~gbuf.buffer.mapped
         THEN /\ last' = BufferCall(op, gbuf.map_state, FALSE, Panicked, 1)
              /\ crashed' = TRUE
              /\ UNCHANGED gbuf
         ELSE /\ gbuf' = [gbuf EXCEPT !.buffer.mapped = FALSE, !.buffer.written = written,
                                      !.pending_writes = <<>>,
                                      !.active_ranges = <<>>, !.map_state = "unmapped"]
              /\ last' = BufferCall(op, gbuf.map_state, FALSE, Ok, 1)
              /\ UNCHANGED crashed
  /\ UNCHANGED <<encoder, buffers, handle, session, ncalls, capture, queue, objects>>

\* what the host can hand to unmap: nothing, or the bytes of a range it was
\* given (the last one stays with the host after an unmap)
Modified ==
  IF gbuf.st = "absent" THEN {<<>>}
  ELSE {<<>>, gbuf.mapped_data}
         \cup {<<gbuf.active_ranges[i][2]>> : i \in 1..Len(gbuf.active_ranges)}

BufferSizes == {8, 16}
BufferDescriptors ==
  {[size |-> n, copy_dst |-> c, mapped_at_creation |-> m] :
     n \in BufferSizes, c \in BOOLEAN, m \in {<<>>, <<TRUE>>, <<FALSE>>}}
RangeOffsets == {None, 0, 4, 8, 24}
RangeSizes == {None, 4, 6, 8, 16}
ModifiedBuffers == {<<>>} \cup {<<n>> : n \in RangeSizes \ {None}}

\* one GpuBuffer and every call the host can make on it
BufferNext ==
  \/ \E d \in BufferDescriptors : CreateBuffer(d)
  \/ MapState
  \/ \E mode \in {"READ", "WRITE", "read"} : MapAsync(mode)
  \/ \E c \in MapCalls : MapAsyncPoll(c)
  \/ \E c \in MapCalls : MapAsyncResolve(c)
  \/ \E offset \in RangeOffsets : \E size \in RangeSizes : GetMappedRange(offset, size)
  \/ \E m \in ModifiedBuffers : m \in Modified /\ Unmap(m)

SpecBuffer == InitArgs /\ [][BufferNext]_vars

\* one buffer and its mapping calls; the device poll returns once the native
\* callback has fired and the runtime keeps running a call that can go on,
\* so a call in flight takes its next step eventually
MapNext ==
  \/ \E c \in BOOLEAN : \E m \in {<<>>, <<TRUE>>} :
       CreateBuffer([size |-> 8, copy_dst |-> c, mapped_at_creation |-> m])
  \/ MapState
  \/ \E mode \in {"READ", "read"} : MapAsync(mode)
  \/ \E c \in MapCalls : MapAsyncPoll(c)
  \/ \E c \in MapCalls : MapAsyncResolve(c)
  \/ \E offset \in {None, 8} : GetMappedRange(offset, 4)
  \/ Unmap(<<>>)

SpecMap ==
  /\ InitArgs
  /\ [][MapNext]_vars
  /\ \A c \in MapCalls : WF_vars(MapAsyncPoll(c)) /\ WF_vars(MapAsyncResolve(c))

MaxListed == 2

\* the arrays a host hands to submit: up to MaxListed command buffers
CommandBufferLists ==
  UNION {[1..n -> 1..MaxBuffers] : n \in 0..MaxListed}

\* encoders recorded on and finished one after another, and their command
\* buffers submitted in every way
QueueNext ==
  \/ CreateCommandEncoder
  \/ CreateNextCommandEncoder
  \/ CopyBufferToBufferStandard
  \/ Finish
  \/ \E command_buffers \in CommandBufferLists : Submit(command_buffers)
  \/ \E command_buffer \in 1..MaxBuffers : QueueSubmit(command_buffer)

SpecQueue == InitArgs /\ [][QueueNext]_vars

Red == <<1, 0, 0, 1>>
ShortColor == <<1, 0, 0>>
LongColor == <<0, 1, 0, 0, 7>>
\* a number of colour attachments and the clear_colors handed with them:
\* none, an empty list, a full entry, a short entry, a long entry, and a list
\* shorter than the attachments
ClearColorCases ==
  {<<1, NoColors>>, <<1, <<<<>>>>>>, <<1, <<<<Red>>>>>>, <<1, <<<<ShortColor>>>>>>,
   <<2, <<<<LongColor, Red>>>>>>, <<2, <<<<Red>>>>>>}

\* one encoder and its inline passes, every native call observed in full
InlineNext ==
  \/ CreateCommandEncoder
  \/ \E n \in {0, 2} : EncoderIsSome /\ ComputePass(n, 4, None, None)
  \/ EncoderIsSome /\ ComputePassIndirect(1, 0)
  \/ \E c \in ClearColorCases : EncoderIsSome /\ RenderPass(2, 2, 3, c[1], c[2])
  \/ EncoderIsSome /\ RenderPassIndexed(None, 1, "uint16", 6, 1, NoColors)
  \/ EncoderIsSome /\ RenderPassIndirect(None, 1, 0, 1, <<<<Red>>>>)
  \/ EncoderIsSome /\ RenderPassIndexedIndirect(2, 2, "uint32", 0, 1, NoColors)
  \/ \E cc \in {NoColors, <<<<LongColor>>>>} : EncoderIsSome /\ RenderPassBundles(1, 1, cc)
  \/ EncoderIsSome /\ Finish

SpecInline == InitArgs /\ [][InlineNext]_vars

\* the two entry points that validate their token, observed in full
StrictNext ==
  \/ CreateCommandEncoder
  \/ EncoderIsSome /\ BeginRenderPass
  \/ \E h \in Handles : \E f \in {"uint16", "uint8", ""} :
       PassIsSome(h) /\ RenderSetIndexBuffer(h, f, None, None)
  \/ \E h \in Handles : PassIsSome(h) /\ RenderEnd(h)
  \/ \E t \in {"timestamp", "pipeline-statistics", ""} :
       CreateQuerySet([count |-> 2, query_type |-> t])

SpecStrict == InitArgs /\ [][StrictNext]_vars


\* =================================================================== claims
OpenHandles == {h \in Handles : handle[h].st # "absent" /\ handle[h].pass # None}

\* C1: a recording operation called on an ENDED handle, whatever its
\* arguments, returns the "already ended" error of its pass kind, makes no
\* native call and changes nothing: the handle stays ENDED.
C1_EndedHandleRejects ==
  [][\A h \in Handles :
       (handle[h].st = "live" /\ handle[h].pass = None /\ last'.cls = "record" /\ last'.tgt = h)
         => /\ last'.res = Err(EndedMsg(handle[h].kind))
            /\ last'.fwd = 0
            /\ <<encoder, buffers, handle, session, ncalls, crashed>>' =
                 <<encoder, buffers, handle, session, ncalls, crashed>>]_vars

\* an ENDED handle was called with arguments that fail validation on an OPEN one
C1_Witness ==
  /\ last.cls = "record" /\ last.pre = "ENDED" /\ last.bad
  /\ last.res.msg \in {RenderEnded, ComputeEnded}

\* C2: after any end call the handle is ENDED and its native session has
\* been finalized exactly once; an end on an ENDED handle finalizes nothing
\* and reports no error.
C2_EndIdempotent ==
  last.cls = "end"
    => /\ HState(last.tgt) = "ENDED"
       /\ session[last.tgt].finalized = 1
       /\ last.res = Ok
       /\ last.pre = "ENDED" => last.fwd = 0

\* end was called on a handle that was already ENDED
C2_Witness == last.cls = "end" /\ last.pre = "ENDED" /\ session[last.tgt].finalized = 1

\* C3: a native session is never finalized more than once, a discarded
\* handle's session has been finalized exactly once, and discarding a handle
\* that end already ended finalizes nothing.
C3_FinalizedOnce ==
  /\ \A h \in Handles : session[h].finalized <= 1
  /\ \A h \in Handles : handle[h].st = "dropped" => session[h].finalized = 1
  /\ (last.cls = "drop" /\ last.pre = "ENDED") => last.fwd = 0

\* a handle was ended explicitly and then discarded
C3_Witness ==
  /\ last.cls = "drop" /\ last.pre = "ENDED"
  /\ handle[last.tgt].st = "dropped" /\ session[last.tgt].finalized = 1

\* C4: discarding a handle that is still OPEN finalizes its native session
\* (once), so no discarded handle is left with an open session.
C4_DropFinalizesOpen ==
  /\ \A h \in Handles :
       handle[h].st = "dropped" => handle[h].pass = None /\ session[h].st = "freed"
  /\ (last.cls = "drop" /\ last.pre = "OPEN")
       => last.fwd = 1 /\ session[last.tgt].finalized = 1

\* an OPEN handle was discarded without any end call
C4_Witness == last.cls = "drop" /\ last.pre = "OPEN" /\ session[last.tgt].st = "freed"

\* C5: at most one pass handle is OPEN on the encoder, and a begin on an
\* encoder with an OPEN session is rejected with an error and creates nothing.
C5_OneOpenHandle ==
  /\ [](Cardinality(OpenHandles) <= 1)
  /\ [][(EncoderBusy /\ last'.cls = "begin")
          => last'.res # Ok /\ handle' = handle /\ session' = session]_vars

\* a second begin was attempted while a handle was OPEN
C5_Witness == last.cls = "begin" /\ last.busy /\ last.res # Ok /\ Cardinality(OpenHandles) = 1

\* C6: while a pass handle is OPEN every other operation on its parent
\* encoder, finish included, is rejected and records nothing, so no recording
\* operation is applied through a handle whose encoder has been finished.
C6_EncoderExclusive ==
  /\ (last.cls \in {"encop", "finish"} /\ last.busy) => (last.res # Ok /\ last.fwd = 0)
  /\ (last.cls = "record" /\ last.fwd = 1) => ~last.fin

\* C7: on a finished encoder every recording operation returns "Command
\* encoder already finished" and records nothing, and nothing makes the
\* encoder usable again.
C7_FinishedEncoderRejects ==
  /\ []((last.cls = "encop" /\ last.pre = "none")
          => last.res = Err(EncoderFinished) /\ last.fwd = 0)
  /\ [][encoder.st = "none"
          => /\ encoder' = encoder
             /\ last'.cls = "encop" => (buffers' = buffers /\ ncalls' = ncalls)]_vars

\* a recording operation was called on a finished encoder
C7_Witness == last.cls = "encop" /\ last.pre = "none" /\ encoder.st = "none"

\* C8: finish on an already finished encoder is reported as an error.
C8_SecondFinishReported == (last.cls = "finish" /\ last.pre = "none") => last.res # Ok

\* C9: an ENDED handle never becomes OPEN again, and a released native
\* session receives no further call and no further finalization.
C9_EndedAbsorbing ==
  [][\A h \in Handles :
       /\ (handle[h].st # "absent" /\ handle[h].pass = None) => handle'[h].pass = None
       /\ session[h].st = "freed" => session'[h] = session[h]]_vars

\* an operation was called on a handle after it had been ended
C9_Witness ==
  /\ last.cls \in {"record", "end", "drop"} /\ last.pre = "ENDED"
  /\ session[last.tgt].st = "freed" /\ handle[last.tgt].pass = None

\* C10: a recording operation on an OPEN handle leaves it OPEN, whether it
\* succeeds or fails validation; a validation error makes no native call; only
\* end or discard takes a handle out of OPEN.
C10_RecordingKeepsOpen ==
  [][\A h \in Handles :
       /\ (handle[h].st = "live" /\ handle[h].pass # None /\ last'.cls = "record" /\ last'.tgt = h)
            => /\ handle'[h] = handle[h]
               /\ session'[h].st = session[h].st
               /\ last'.res # Ok => (last'.fwd = 0 /\ session' = session /\ ncalls' = ncalls)
       /\ (handle[h].st = "live" /\ handle[h].pass # None /\ handle'[h].pass = None)
            => (last'.cls \in {"end", "drop"} /\ last'.tgt = h)]_vars

\* a recording operation failed validation on an OPEN handle, which is still OPEN
C10_Witness ==
  /\ last.cls = "record" /\ last.pre = "OPEN" /\ last.bad /\ last.res # Ok
  /\ HState(last.tgt) = "OPEN" /\ handle[last.tgt].st = "live"

\* C11: every successful recording operation on an OPEN handle appends
\* exactly one call to the handle's native session, carrying the operation's
\* name and the arguments the host passed; the calls received before stay as
\* they were and in their order (nothing is reset), no other session is
\* touched, and an operation that does not return Ok forwards nothing.
C11_Same(req, c) ==
  /\ c.fn = req.fn
  /\ req.fn = "set_pipeline" => c.pipeline = req.args[1]
  /\ req.fn = "set_bind_group"
       => /\ c.index = req.args[1]
          /\ c.offsets = (IF req.args[2] = None THEN <<>> ELSE <<req.args[2]>>)
  /\ req.fn = "set_vertex_buffer"
       => /\ c.slot = req.args[1]
          /\ c.slice[1] = (IF req.args[2] = None THEN 0 ELSE req.args[2])
          /\ (req.args[2] # None /\ req.args[3] # None) => c.slice[2] = req.args[2] + req.args[3]
          /\ (req.args[2] = None \/ req.args[3] = None) => c.slice[2] = BufferEnd
  /\ req.fn = "set_index_buffer" => c.format = (IF req.args[1] = "uint16" THEN "Uint16" ELSE "Uint32")
  /\ req.fn = "draw"
       => /\ c.vertices[1] = (IF req.args[3] = NoU32 THEN <<0, 0>> ELSE req.args[3])
          /\ c.instances[1] = (IF req.args[4] = NoU32 THEN <<0, 0>> ELSE req.args[4])
  /\ req.fn = "dispatch_workgroups"
       => c.count = <<req.args[1], IF req.args[2] = None THEN 1 ELSE req.args[2],
                      IF req.args[3] = None THEN 1 ELSE req.args[3]>>

LastCall(h) == session[h].calls[Len(session[h].calls)]

\* C12: a draw on an OPEN render handle returns Ok and records exactly one
\* native draw whose vertex range is [firstVertex, firstVertex + vertexCount)
\* and whose instance range is [firstInstance, firstInstance + instanceCount),
\* with instanceCount 1 and firstVertex / firstInstance 0 when omitted (so
\* that draw(3) after setPipeline and setVertexBuffer records one draw of
\* vertices [0, 3) and instances [0, 1)).
C12_DrawRanges ==
  (last.cls = "record" /\ last.pre = "OPEN" /\ last.req.fn = "draw")
    => /\ last.res = Ok /\ last.fwd = 1
       /\ LET first_vertex == IF last.req.args[3] = NoU32 THEN <<0, 0>> ELSE last.req.args[3]
              first_instance == IF last.req.args[4] = NoU32 THEN <<0, 0>> ELSE last.req.args[4]
              instance_count == IF last.req.args[2] = NoU32 THEN <<0, 1>> ELSE last.req.args[2]
          IN LastCall(last.tgt) =
               [fn |-> "draw",
                vertices |-> <<first_vertex, U32Sum(first_vertex, last.req.args[1])>>,
                instances |-> <<first_instance, U32Sum(first_instance, instance_count)>>]

\* C13: draw, drawIndexed and resolve_query_set never fault and never wrap:
\* a call on an OPEN handle (a usable encoder) either returns a reported
\* error, or returns Ok having recorded the range whose end is the
\* mathematical sum first + count.
C13_RangeEndExact ==
  /\ last.res # Panicked
  /\ (last.cls = "record" /\ last.pre = "OPEN" /\ last.res = Ok
        /\ last.req.fn \in {"draw", "draw_indexed"})
       => LET c == LastCall(last.tgt)
              r == IF last.req.fn = "draw" THEN c.vertices ELSE c.indices
          IN /\ r[2] = U32Sum(r[1], last.req.args[1])
             /\ c.instances[2] =
                  U32Sum(c.instances[1],
                         IF last.req.args[2] = NoU32 THEN <<0, 1>> ELSE last.req.args[2])
  /\ (last.cls = "encop" /\ last.pre = "some" /\ last.res = Ok
        /\ last.req.fn = "resolve_query_set")
       => encoder.cmds[Len(encoder.cmds)].calls[1].queries =
            <<last.req.args[1], U32Sum(last.req.args[1], last.req.args[2])>>

\* the native object the device created last
LastObject == objects[Len(objects)]

\* C14: the parsers are total and never report an error: creating a
\* texture, a sampler or a render pipeline always returns Ok, and in the
\* native descriptor every texture format, vertex format, blend factor, blend
\* operation, address mode, filter mode, topology and depth compare is the
\* native value named like the token when the token is in the vocabulary,
\* and otherwise (any other string, or no string) the one default: Rgba8Unorm,
\* Float32x3, One, Add, ClampToEdge, Nearest, TriangleList, Less.
C14_Vocabulary(kind) ==
  CASE kind = "texture_format" ->
         {<<"rgba8unorm", "Rgba8Unorm">>, <<"bgra8unorm", "Bgra8Unorm">>,
          <<"rgba16float", "Rgba16Float">>, <<"rgba32float", "Rgba32Float">>,
          <<"depth24plus", "Depth24Plus">>, <<"depth32float", "Depth32Float">>}
    [] kind = "vertex_format" ->
         {<<"float32", "Float32">>, <<"float32x2", "Float32x2">>, <<"float32x3", "Float32x3">>,
          <<"float32x4", "Float32x4">>, <<"uint32", "Uint32">>, <<"sint32", "Sint32">>}
    [] kind = "blend_factor" ->
         {<<"zero", "Zero">>, <<"one", "One">>, <<"src", "Src">>,
          <<"one-minus-src", "OneMinusSrc">>, <<"src-alpha", "SrcAlpha">>,
          <<"one-minus-src-alpha", "OneMinusSrcAlpha">>, <<"dst", "Dst">>,
          <<"one-minus-dst", "OneMinusDst">>, <<"dst-alpha", "DstAlpha">>,
          <<"one-minus-dst-alpha", "OneMinusDstAlpha">>,
          <<"src-alpha-saturated", "SrcAlphaSaturated">>, <<"constant", "Constant">>,
          <<"one-minus-constant", "OneMinusConstant">>}
    [] kind = "blend_operation" ->
         {<<"add", "Add">>, <<"subtract", "Subtract">>, <<"reverse-subtract", "ReverseSubtract">>,
          <<"min", "Min">>, <<"max", "Max">>}
    [] kind = "address_mode" ->
         {<<"clamp-to-edge", "ClampToEdge">>, <<"repeat", "Repeat">>,
          <<"mirror-repeat", "MirrorRepeat">>}
    [] kind = "filter_mode" -> {<<"linear", "Linear">>, <<"nearest", "Nearest">>}
    [] kind = "topology" ->
         {<<"point-list", "PointList">>, <<"line-list", "LineList">>,
          <<"line-strip", "LineStrip">>, <<"triangle-list", "TriangleList">>,
          <<"triangle-strip", "TriangleStrip">>}
    [] kind = "depth_compare" ->
         {<<"never", "Never">>, <<"less", "Less">>, <<"equal", "Equal">>,
          <<"less-equal", "LessEqual">>, <<"greater", "Greater">>, <<"not-equal", "NotEqual">>,
          <<"greater-equal", "GreaterEqual">>, <<"always", "Always">>}

C14_Default(kind) ==
  CASE kind = "texture_format" -> "Rgba8Unorm"
    [] kind = "vertex_format" -> "Float32x3"
    [] kind = "blend_factor" -> "One"
    [] kind = "blend_operation" -> "Add"
    [] kind = "address_mode" -> "ClampToEdge"
    [] kind = "filter_mode" -> "Nearest"
    [] kind = "topology" -> "TriangleList"
    [] kind = "depth_compare" -> "Less"

\* native is the value the claim gives for an optional token of that kind
C14_Maps(kind, opt, native) ==
  IF opt # NoString /\ \E p \in C14_Vocabulary(kind) : p[1] = opt[1]
  THEN <<opt[1], native>> \in C14_Vocabulary(kind)
  ELSE native = C14_Default(kind)

C14_Component(c, n) ==
  /\ C14_Maps("blend_factor", Some(c.src_factor), n.src_factor)
  /\ C14_Maps("blend_factor", Some(c.dst_factor), n.dst_factor)
  /\ C14_Maps("blend_operation", Some(c.operation), n.operation)

C14_ParsersTotal ==
  (last.cls = "device"
     /\ last.req.fn \in {"create_texture", "create_sampler", "create_render_pipeline"})
    => /\ last.res = Ok /\ last.fwd = 1 /\ Len(objects) > 0
       /\ LET d == last.req.args[1]
              o == LastObject
          IN /\ last.req.fn = "create_texture"
                  => C14_Maps("texture_format", Some(d.format), o.format)
             /\ last.req.fn = "create_sampler"
                  => /\ C14_Maps("address_mode", d.address_mode_u, o.address_mode_u)
                     /\ C14_Maps("address_mode", d.address_mode_v, o.address_mode_v)
                     /\ C14_Maps("address_mode", d.address_mode_w, o.address_mode_w)
                     /\ C14_Maps("filter_mode", d.mag_filter, o.mag_filter)
                     /\ C14_Maps("filter_mode", d.min_filter, o.min_filter)
                     /\ C14_Maps("filter_mode", d.mipmap_filter, o.mipmap_filter)
             /\ last.req.fn = "create_render_pipeline"
                  => /\ Len(o.buffers) = Len(d.buffers)
                     /\ \A i \in 1..Len(d.buffers) :
                          /\ Len(o.buffers[i].attributes) = Len(d.buffers[i].attributes)
                          /\ \A j \in 1..Len(d.buffers[i].attributes) :
                               C14_Maps("vertex_format", Some(d.buffers[i].attributes[j].format),
                                        o.buffers[i].attributes[j].format)
                     /\ C14_Maps("topology",
                                 IF d.primitive = <<>> THEN NoString ELSE d.primitive[1].topology,
                                 o.primitive.topology)
                     /\ Len(o.depth_stencil) = Len(d.depth_stencil)
                     /\ \A i \in 1..Len(d.depth_stencil) :
                          /\ C14_Maps("texture_format", Some(d.depth_stencil[i].format),
                                      o.depth_stencil[i].format)
                          /\ C14_Maps("depth_compare", d.depth_stencil[i].depth_compare,
                                      o.depth_stencil[i].depth_compare)
                     /\ Len(o.targets) = Len(d.targets)
                     /\ \A i \in 1..Len(d.targets) :
                          /\ C14_Maps("texture_format", Some(d.targets[i].format), o.targets[i].format)
                          /\ Len(o.targets[i].blend) = Len(d.targets[i].blend)
                          /\ \A k \in 1..Len(d.targets[i].blend) :
                               /\ C14_Component(d.targets[i].blend[k].color,
                                                o.targets[i].blend[k].color)
                               /\ C14_Component(d.targets[i].blend[k].alpha,
                                                o.targets[i].blend[k].alpha)

\* a render pipeline was created from a descriptor whose depth compare token
\* is outside the vocabulary, after a sampler with an unknown address mode
C14_Witness ==
  /\ last.cls = "device" /\ last.req.fn = "create_render_pipeline" /\ last.res = Ok
  /\ Len(objects) = 2
  /\ last.req.args[1].depth_stencil # <<>>
  /\ last.req.args[1].depth_stencil[1].depth_compare = Some("less_equal")
  /\ LastObject.depth_stencil[1].depth_compare = "Less"
  /\ objects[1].ty = "sampler" /\ objects[1].address_mode_u = "ClampToEdge"

\* C15: setIndexBuffer on an OPEN handle with a format other than "uint16"
\* or "uint32", and createQuerySet with a type other than "timestamp" or
\* "occlusion", return an error that names the token, and perform no native
\* operation: the session receives no call and no object is created.
C15_StrictTokens ==
  /\ []((last.cls = "record" /\ last.pre = "OPEN" /\ last.req.fn = "set_index_buffer"
           /\ last.req.args[1] \notin {"uint16", "uint32"})
          => /\ last.res = [msg |-> "Invalid index format: ", arg |-> last.req.args[1]]
             /\ last.fwd = 0)
  /\ []((last.cls = "device" /\ last.req.fn = "create_query_set"
           /\ last.req.args[1].query_type \notin {"timestamp", "occlusion"})
          => /\ last.res = [msg |-> "Invalid query type: ", arg |-> last.req.args[1].query_type]
             /\ last.fwd = 0)
  /\ [][(/\ last'.req.fn = "set_index_buffer" /\ last'.cls = "record" /\ last'.pre = "OPEN"
         /\ last'.req.args[1] \notin {"uint16", "uint32"})
          => session' = session /\ encoder' = encoder]_vars
  /\ [][(/\ last'.req.fn = "create_query_set" /\ last'.cls = "device"
         /\ last'.req.args[1].query_type \notin {"timestamp", "occlusion"})
          => objects' = objects]_vars

\* "uint8" was refused on an OPEN handle that had bound an index buffer
\* before, and a query set exists
C15_Witness ==
  /\ last.cls = "record" /\ last.pre = "OPEN" /\ last.req.fn = "set_index_buffer"
  /\ last.req.args[1] = "uint8" /\ last.res.arg = "uint8"
  /\ Len(session[last.tgt].calls) = 1 /\ session[last.tgt].calls[1].fn = "set_index_buffer"
  /\ Len(objects) = 1

MapStates == {"unmapped", "pending", "mapped"}

\* C16: in every reachable state of a GpuBuffer the tracked map state, and
\* what mapState returns, is one of "unmapped", "pending", "mapped".
C16_MapStateDomain ==
  gbuf.st = "live" =>
    /\ gbuf.map_state \in MapStates
    /\ (last.req.fn = "map_state" => last.res = [msg |-> "Ok", arg |-> gbuf.map_state])

\* mapState answered "pending" after a mapAsync, and "mapped" was reached before
C16_Witness ==
  /\ gbuf.st = "live" /\ last.req.fn = "map_state"
  /\ last.res.arg = "pending" /\ gbuf.buffer.mapped

\* C17: getMappedRange returns Ok only in map state "mapped"; in state
\* "unmapped" or "pending" it returns the reported state error naming the
\* state and leaves the map state, the active ranges and the stored mapped
\* data as they were.
C17_MappedOnly ==
  [][(last'.cls = "buffer" /\ last'.req.fn = "get_mapped_range")
       => /\ last'.res = Ok => gbuf.map_state = "mapped"
          /\ gbuf.map_state \in {"unmapped", "pending"}
               => /\ last'.res = [msg |-> MustBeMapped, arg |-> gbuf.map_state]
                  /\ gbuf'.map_state = gbuf.map_state
                  /\ gbuf'.active_ranges = gbuf.active_ranges
                  /\ gbuf'.mapped_data = gbuf.mapped_data
                  /\ ~crashed']_vars

\* getMappedRange was refused in state "pending" while a range handed out
\* earlier was still active
C17_Witness ==
  /\ last.cls = "buffer" /\ last.req.fn = "get_mapped_range"
  /\ last.pre = "pending" /\ last.res = [msg |-> MustBeMapped, arg |-> "pending"]
  /\ Len(gbuf.active_ranges) = 1 /\ gbuf.mapped_data # <<>>

\* C18: a buffer created with mappedAtCreation: true starts in map state
\* "mapped" and a first getMappedRange() on it is accepted; a buffer created
\* without it starts "unmapped".
C18_MappedAtCreation ==
  /\ []((gbuf.st = "live" /\ last.req.fn = "create_buffer")
          => gbuf.map_state = IF last.req.args[1].mapped_at_creation = <<TRUE>>
                              THEN "mapped" ELSE "unmapped")
  /\ [][(/\ last.req.fn = "create_buffer"
         /\ last.req.args[1].mapped_at_creation = <<TRUE>>
         /\ last'.req = Req("get_mapped_range", <<None, None>>))
          => last'.res = Ok]_vars

\* the bytes of an active range
Bytes(range) == range[1]..(range[1] + range[2] - 1)

\* C19: no two active ranges of a live buffer share a byte, and a
\* getMappedRange whose range [offset, offset + size) intersects an active
\* range returns a reported error and adds nothing to the active ranges.
C19_RangesDisjoint ==
  /\ [](~crashed /\ gbuf.st = "live"
          => \A i, j \in 1..Len(gbuf.active_ranges) :
               i # j => Bytes(gbuf.active_ranges[i]) \cap Bytes(gbuf.active_ranges[j]) = {})
  /\ [][(/\ last'.cls = "buffer" /\ last'.req.fn = "get_mapped_range"
         /\ LET offset == Unwrap(last'.req.args[1], 0)
                size == Unwrap(last'.req.args[2], gbuf.buffer.size - offset)
            IN  \E i \in 1..Len(gbuf.active_ranges) :
                  Bytes(<<offset, size>>) \cap Bytes(gbuf.active_ranges[i]) # {})
          => /\ last'.bad /\ last'.res \notin {Ok, Panicked}
             /\ gbuf'.active_ranges = gbuf.active_ranges]_vars

\* two ranges are active and a third request that intersects one was refused
C19_Witness ==
  /\ last.cls = "buffer" /\ last.req.fn = "get_mapped_range"
  /\ last.res = Err(RangeOverlaps)
  /\ Len(gbuf.active_ranges) = 2

\* C20: getMappedRange on a mapped buffer, with offset defaulting to 0 and
\* size to bufferSize - offset, returns a reported error and records no
\* active range when offset is not a multiple of 8, size is not a multiple of
\* 4, or the range does not end inside the buffer (offset + size exceeds the
\* buffer size, or no bytes remain at offset); when it returns Ok the range
\* it records is exactly (offset, size) with these defaults.
C20_RangeValidated ==
  [][(last'.cls = "buffer" /\ last'.req.fn = "get_mapped_range" /\ gbuf.map_state = "mapped")
       => LET offset == Unwrap(last'.req.args[1], 0)
              size == Unwrap(last'.req.args[2], gbuf.buffer.size - offset)
          IN  IF \/ offset % 8 # 0
                 \/ size % 4 # 0
                 \/ size < 0
                 \/ offset + size > gbuf.buffer.size
              THEN /\ last'.bad /\ last'.res \notin {Ok, Panicked}
                   /\ gbuf'.active_ranges = gbuf.active_ranges
              ELSE last'.res = Ok
                     => gbuf'.active_ranges = Append(gbuf.active_ranges, <<offset, size>>)]_vars

\* C21: when exactly one range (offset, size) has been handed out by
\* getMappedRange and its bytes are handed to unmap, unmap writes them to the
\* native buffer at that same range, (offset, size), with and without
\* COPY_DST.
C21_RoundTrip ==
  [][(/\ last'.cls = "buffer" /\ last'.req.fn = "unmap"
      /\ Len(gbuf.active_ranges) = 1
      /\ last'.req.args[1] = <<gbuf.active_ranges[1][2]>>)
       => gbuf'.buffer.written = gbuf.active_ranges[1]]_vars

\* where the map_async call c stands
MapCall(c) == IF gbuf.st = "live" THEN gbuf.inflight[c] ELSE Idle

\* C22: a mapAsync call with a valid mode first sets the map state to
\* "pending" without touching the native buffer, then issues the native
\* request and polls the device, and only after that resolves, with the
\* callback's result; and every call in flight eventually resolves, unless
\* the process faults in another call first.
C22_RequestPollResolve ==
  /\ [][\A c \in MapCalls :
          /\ (MapCall(c).pc = "idle" /\ MapCall(c)'.pc # "idle")
               => /\ MapCall(c)'.pc = "request"
                  /\ gbuf'.map_state = "pending"
                  /\ last'.req.fn = "map_async" /\ last'.res = Pending /\ last'.fwd = 0
                  /\ gbuf'.buffer.mapped = gbuf.buffer.mapped
          /\ (MapCall(c).pc = "request" /\ MapCall(c)'.pc # "request")
               => /\ MapCall(c)'.pc = "resolve"
                  /\ last'.req = Req("map_async_poll", <<c>>) /\ last'.fwd = 1
          /\ (MapCall(c).pc = "resolve" /\ MapCall(c)'.pc # "resolve")
               => /\ MapCall(c)'.pc = "idle"
                  /\ last'.req = Req("map_async_resolve", <<c>>)
                  /\ last'.res = IF MapCall(c).result = "ok" THEN Ok ELSE Err(FailedToMap)]_vars
  /\ \A c \in MapCalls : (MapCall(c).pc # "idle") ~> (MapCall(c).pc = "idle" \/ crashed)

\* a call resolved Ok after its poll mapped the native buffer
C22_Witness ==
  /\ last.cls = "buffer" /\ last.req.fn = "map_async_resolve" /\ last.res = Ok
  /\ last.pre = "pending" /\ gbuf.buffer.mapped

\* the lists of an array that are still in their command buffers, each at
\* its first mention, from position k on
RECURSIVE C23_Remaining(_, _)
C23_Remaining(list, k) ==
  IF k > Len(list) THEN <<>>
  ELSE (IF /\ buffers[list[k]].buffer = "Some"
           /\ \A j \in 1..(k - 1) : list[j] # list[k]
        THEN <<[cmds |-> buffers[list[k]].cmds, id |-> list[k]]>>
        ELSE <<>>) \o C23_Remaining(list, k + 1)

\* C23: no command list is in the native queue twice and a list in the queue
\* has left its GpuCommandBuffer; submit appends exactly the lists still held
\* by the listed command buffers, each once, in array order, and queue_submit
\* appends the list of its command buffer if it still holds one; a command
\* buffer that was submitted before, is listed a second time, or came from
\* finishing a finished encoder adds nothing.
C23_SubmittedOnce ==
  /\ [](/\ \A i, j \in 1..Len(queue) : i # j => queue[i].id # queue[j].id
        /\ \A i \in 1..Len(queue) : buffers[queue[i].id].buffer = "None")
  /\ [][/\ last'.req.fn = "submit"
             => /\ queue' = queue \o C23_Remaining(last'.req.args[1], 1)
                /\ \A k \in 1..Len(last'.req.args[1]) :
                     buffers'[last'.req.args[1][k]].buffer = "None"
        /\ last'.req.fn = "queue_submit"
             => /\ queue' = queue \o C23_Remaining(<<last'.req.args[1]>>, 1)
                /\ buffers'[last'.req.args[1]].buffer = "None"
        /\ last'.req.fn \notin {"submit", "queue_submit"} => queue' = queue]_vars

\* one submit put two lists into the queue in array order, which was not
\* the order they were finished in
C23_Witness ==
  /\ last.req.fn = "submit" /\ last.req.args[1] = <<2, 1>>
  /\ Len(queue) = 2 /\ queue[1].id = 2 /\ queue[2].id = 1
  /\ queue[2].cmds # <<>>

\* C24: on a mapped buffer a range that getMappedRange accepts lies inside
\* the buffer, 0 <= offset and offset + size <= bufferSize with size >= 0,
\* and a call whose default size bufferSize - offset would be negative
\* (offset beyond the buffer, size omitted) returns a reported error and
\* records nothing: it neither faults nor goes on with a wrapped size.
C24_NoWrap ==
  [][(last'.cls = "buffer" /\ last'.req.fn = "get_mapped_range" /\ gbuf.map_state = "mapped")
       => /\ last'.res = Ok
               => /\ Len(gbuf'.active_ranges) = Len(gbuf.active_ranges) + 1
                  /\ LET range == gbuf'.active_ranges[Len(gbuf'.active_ranges)]
                     IN  /\ range[1] >= 0 /\ range[2] >= 0
                         /\ range[1] + range[2] <= gbuf.buffer.size
          /\ (last'.req.args[2] = None /\ Unwrap(last'.req.args[1], 0) > gbuf.buffer.size)
               => /\ last'.bad /\ last'.res \notin {Ok, Panicked}
                  /\ ~crashed'
                  /\ gbuf'.active_ranges = gbuf.active_ranges]_vars

\* C25: every unmap call, whatever the map state and whatever it is handed,
\* returns Ok and leaves the map state "unmapped", no active range and no
\* pending write; an overlap error therefore always comes from a range
\* handed out since the last unmap.
C25_UnmapResets ==
  [][/\ (last'.cls = "buffer" /\ last'.req.fn = "unmap")
          => /\ last'.res = Ok /\ ~crashed'
             /\ gbuf'.map_state = "unmapped"
             /\ gbuf'.active_ranges = <<>>
             /\ gbuf'.pending_writes = <<>>
     /\ (last'.cls = "buffer" /\ last'.res = Err(RangeOverlaps))
          => gbuf.active_ranges # <<>>]_vars

\* C26: right after a mapAsync call has resolved the map state is "mapped" if
\* it returned Ok and "unmapped" if it returned an error, the invalid-mode
\* error included; and the map state is "pending" only while some mapAsync
\* call is in flight.
C26_ResolvedState ==
  gbuf.st = "live" =>
    /\ (last.req.fn = "map_async_resolve" \/ (last.req.fn = "map_async" /\ last.res # Pending))
         => gbuf.map_state = IF last.res = Ok THEN "mapped" ELSE "unmapped"
    /\ gbuf.map_state = "pending" => \E c \in MapCalls : gbuf.inflight[c].pc # "idle"

\* C27: whenever no mapAsync call is in flight the tracked map state is
\* "mapped" exactly when the native buffer is mapped, and getMappedRange
\* reaches the native buffer only when that buffer is mapped.
C27_StateAgreesWithNative ==
  /\ []((gbuf.st = "live" /\ \A c \in MapCalls : gbuf.inflight[c].pc = "idle")
          => (gbuf.map_state = "mapped" <=> gbuf.buffer.mapped))
  /\ [][(last'.cls = "buffer" /\ last'.req.fn = "get_mapped_range" /\ last'.fwd = 1)
          => gbuf.buffer.mapped]_vars

\* where a native call stands in the order begin, set_pipeline,
\* set_bind_group, set_vertex_buffer, set_index_buffer, draw or dispatch, end
C28_Rank(fn) ==
  CASE fn \in {"begin_render_pass", "begin_compute_pass"} -> 0
    [] fn = "set_pipeline" -> 1
    [] fn = "set_bind_group" -> 2
    [] fn = "set_vertex_buffer" -> 3
    [] fn = "set_index_buffer" -> 4
    [] fn = "end" -> 6
    [] OTHER -> 5

C28_Count(calls, fn) == Cardinality({k \in 1..Len(calls) : calls[k].fn = fn})

\* the native calls of one inline pass: begin first, end last, neither in
\* between, the calls in rank order, bind groups and vertex buffers numbered
\* from 0 in list order, at most one index buffer, one draw or dispatch, and
\* one set_pipeline (none in render_pass_bundles, whose bundles carry theirs)
C28_InOrder(pass) ==
  LET calls == pass.calls
      n == Len(calls)
  IN  /\ n >= 3
      /\ C28_Rank(calls[1].fn) = 0 /\ calls[n].fn = "end"
      /\ \A k \in 2..(n - 1) : C28_Rank(calls[k].fn) \in 1..5
      /\ \A j, k \in 1..n : j < k => C28_Rank(calls[j].fn) <= C28_Rank(calls[k].fn)
      /\ \A k \in 1..n :
           /\ calls[k].fn = "set_bind_group"
                => calls[k].index = Cardinality({j \in 1..(k - 1) : calls[j].fn = "set_bind_group"})
           /\ calls[k].fn = "set_vertex_buffer"
                => calls[k].slot = Cardinality({j \in 1..(k - 1) : calls[j].fn = "set_vertex_buffer"})
      /\ C28_Count(calls, "set_index_buffer") <= 1
      /\ Cardinality({k \in 1..n : C28_Rank(calls[k].fn) = 5}) = 1
      /\ C28_Count(calls, "set_pipeline") = IF pass.op = "render_pass_bundles" THEN 0 ELSE 1

InlineOps ==
  {"compute_pass", "compute_pass_indirect", "render_pass", "render_pass_indexed",
   "render_pass_indirect", "render_pass_indexed_indirect", "render_pass_bundles"}

InlineRenderOps ==
  {"render_pass", "render_pass_indexed", "render_pass_indirect",
   "render_pass_indexed_indirect", "render_pass_bundles"}

\* C29: an inline render-pass operation returns Ok whatever clear_colors
\* holds and records one colour attachment per view, each with load = Clear
\* and store = Store; attachment i clears to the first four components of
\* clear_colors[i] when clear_colors is given, has an entry i and that entry
\* has at least four components, and to opaque black (0, 0, 0, 1) otherwise.
C29_ClearColors ==
  [][(last'.cls = "encop" /\ last'.req.fn \in InlineRenderOps /\ encoder.st = "some")
       => LET args == last'.req.args
              views == args[Len(args) - 1]
              clear_colors == args[Len(args)]
              begin == encoder'.cmds[Len(encoder'.cmds)].calls[1]
          IN  /\ last'.res = Ok
              /\ begin.fn = "begin_render_pass"
              /\ Len(begin.color_attachments) = views
              /\ \A i \in 0..(views - 1) :
                   LET given == /\ clear_colors # <<>>
                                /\ i < Len(clear_colors[1])
                                /\ Len(clear_colors[1][i + 1]) >= 4
                   IN  /\ begin.color_attachments[i + 1].load = "Clear"
                       /\ begin.color_attachments[i + 1].store = "Store"
                       /\ begin.color_attachments[i + 1].clear =
                            IF given THEN SubSeq(clear_colors[1][i + 1], 1, 4)
                            ELSE <<0, 0, 0, 1>>]_vars

\* two attachments took the first four components of their own entries after
\* a pass whose short entry had cleared to black
C29_Witness ==
  /\ last.cls = "encop" /\ last.req.fn = "render_pass" /\ last.res = Ok
  /\ last.req.args[5] = <<<<LongColor, Red>>>>
  /\ Len(encoder.cmds) = 2
  /\ encoder.cmds[2].calls[1].color_attachments[1].clear = <<0, 1, 0, 0>>
  /\ encoder.cmds[2].calls[1].color_attachments[2].clear = Red
  /\ encoder.cmds[1].op = "render_pass"
  /\ encoder.cmds[1].calls[1].color_attachments[1].clear = Black

====
